---- MODULE Spec2Model ----
(***************************************************************************)
(* Kyanite: the managed runtime (crates/runtime/src/alloc.rs) and the      *)
(* register allocator (crates/kyac/src/backend/kyir/alloc).                *)
(*                                                                         *)
(* Addresses are counted in 8-byte cells: address a stands for the byte    *)
(* address 8*a, so `ptr.add(i * 8)` is a + i and one stack slot is one     *)
(* cell.  A cell holds a u64; the descriptor string of an object is the    *)
(* little-endian byte content of its leading cell(s), exactly as           *)
(* std::ptr::copy leaves it there.                                         *)
(***************************************************************************)
EXTENDS Integers, Sequences, FiniteSets, TLC

VARIABLES
    mem,          \* heap cells of both arena regions: address -> u64
    stack,        \* the managed stack: slot address -> u64
    sp,           \* Allocator.sp, the stack base (0 = null)
    current,      \* which region Allocator.current (from-space) occupies
    used,         \* cells bumped in Allocator.current
    allocations,  \* Allocator.allocations, the live-object list
    arena,        \* the regions bump-allocated in Allocator.current: <<base, cells>>
    gcAlways,     \* whether KYANITE_GC_ALWAYS is set in the environment
    pc,           \* position of the running alloc call
    call,         \* the arguments of the running Allocator::alloc call
    snap,         \* the state a collection started from, while it has just returned
    ops,          \* calls and stores the compiled program has made
    numBytes,     \* init_array: the bytes of the descriptor
    numCount,     \* init_array: the cells it asks the arena for
    numPc,        \* init_array: "start" or "done"
    instrs,       \* the instruction list handed to the register allocator
    adj,          \* Graph.adj: position -> successors
    raPc,         \* position of the register allocation
    raErr,        \* the panic that ended it
    todo,         \* temporaries whose live vector is still to be computed
    temp,         \* Graph::liveness: the temporary
    sites,        \* Graph::liveness: the use sites still to visit
    live,         \* Graph::liveness: the vector being filled
    worklist,     \* Graph::liveness: the worklist
    ranges,       \* LiveRanges: temporary -> vector
    colors,       \* Color::color: temporary -> register
    line,         \* Color::color: the position being coloured
    pending,      \* Color::color: the live temporaries of the position not yet popped
    tBody,        \* Translator: the translated statements of the function body
    tFid,         \* Translator::function, the id of the function being translated
    tRecord,      \* whether a record declaration precedes the function
    tEseq,        \* Expr::eseq: its static ID counter
    tTemp,        \* Temp::new: its static ID counter
    tLabel,       \* Label::new: its static ID counter
    tFrame,       \* the frame of the function: the cells it has allocated
    cIr,          \* canonicalize: the items of ir still to extract
    cNew,         \* canonicalize: new, the (name, body) pairs
    cRepl,        \* canonicalize: the replacements still to apply
    cLifted,      \* canonicalize: the bodies as the extraction left them
    cOut,         \* canonicalize: the list it returns
    cPc,          \* canonicalize: its position
    idCounter,    \* the static ID counters of Temp::new, Label::new, AsmInstr::new
    idThread,     \* per caller: its position, the counter it called, the value it fetched
    idIssued,     \* the (counter, value) pairs in the order the fetch_adds took effect
    idReturned,   \* the (counter, name or id) pairs the calls returned
    pInput,       \* pipeline: the errors each stage records on the source, if it runs
    pPc,          \* pipeline: the stage to run next
    pRan,         \* pipeline: the stages that ran, in order
    pResult,      \* pipeline: what Program::from_file returned
    mCall,        \* checked_move, checked_binary: the call, its arguments and the counters
    mOut,         \* checked_move, checked_binary: what the call returned
    parser        \* Parser: its fields and the loops its calls are in

gcVars == <<mem, stack, sp, current, used, allocations, arena, gcAlways, pc, call, snap, ops>>

numVars == <<numBytes, numCount, numPc>>

raVars == <<instrs, adj, raPc, raErr, todo, temp, sites, live, worklist, ranges, colors, line, pending>>

restVars == <<tBody, tFid, tRecord, tEseq, tTemp, tLabel, tFrame, cIr, cNew, cRepl, cLifted, cOut, cPc,
              idCounter, idThread, idIssued, idReturned,
              pInput, pPc, pRan, pResult, mCall, mOut, parser>>

vars == <<gcVars, numVars, raVars, restVars>>

----------------------------------------------------------------------------
(* Bounds of the model.                                                    *)

\* cells one arena holds before try_alloc_layout fails (stands for LIMIT / 8)
ArenaCells == 7

\* slots of the managed stack
StackSlots == 3

\* calls of alloc / init_array and stores the compiled program makes
MaxOps == 6

\* digits of the array lengths init_array is given
MaxDigits == 3

\* instructions of the lists handed to the register allocator
MaxInstrs == 4

\* entries the worklist of Graph::liveness may hold
MaxWork == 4

\* registers of the frame's temporary list
NumRegisters == 2

----------------------------------------------------------------------------
(* Program constants.                                                      *)

CLASS_METADATA_FIELDS == 2

ARRAY_METADATA_FIELDS == 1

\* ASCII codes of the descriptor characters
CharP == 112

CharI == 105

Char0 == 48

Char9 == 57

CharPlus == 43

----------------------------------------------------------------------------
(* Layout of the address space.                                            *)

ArenaBase(a) == 1 + a * ArenaCells

ArenaAddrs(a) == ArenaBase(a) .. (ArenaBase(a) + ArenaCells - 1)

HeapAddrs == ArenaAddrs(0) \cup ArenaAddrs(1)

StackBase == 2 * ArenaCells + StackSlots

StackAddrs == (StackBase - StackSlots + 1) .. StackBase

\* descriptors the compiled program passes to alloc / init_array
ClassDescriptors == { <<CharI>>, <<CharP, CharP>> }

ArrayDescriptors == { <<Char0 + 1>> }

\* FrameInfo values the compiled program passes (ptr, size), in cells
Frames == { [ptr |-> StackBase, size |-> -(StackSlots - 1)] }

----------------------------------------------------------------------------
(* Bytes and cells.                                                        *)

Pow256(k) == IF k = 0 THEN 1 ELSE IF k = 1 THEN 256 ELSE IF k = 2 THEN 65536 ELSE 16777216

\* byte k of a cell value; every value of the model is below 2^31, so the
\* bytes 4..7 of a cell are zero
ByteAt(v, k) == IF k < 4 THEN (v \div Pow256(k)) % 256 ELSE 0

SetByte(v, k, b) == v - ByteAt(v, k) * Pow256(k) + b * Pow256(k)

\* a read outside the two arena regions reads memory the model does not hold
ReadCell(m, a) == IF a \in DOMAIN m THEN m[a] ELSE 0

WriteCell(m, a, v) == IF a \in DOMAIN m THEN [m EXCEPT ![a] = v] ELSE m

\* std::ptr::copy(descriptor, dst, len): the len bytes of the descriptor, and
\* nothing else, are stored from byte 0 of dst on
RECURSIVE CopyBytes(_, _, _, _)
CopyBytes(m, dst, bytes, i) ==
    IF i > Len(bytes) THEN m
    ELSE LET a == dst + ((i - 1) \div 8)
             k == (i - 1) % 8
         IN CopyBytes(WriteCell(m, a, SetByte(ReadCell(m, a), k, bytes[i])), dst, bytes, i + 1)

\* CStr::from_ptr(ptr).to_bytes(): the bytes from ptr up to the first NUL
RECURSIVE CStrBytes(_, _, _)
CStrBytes(m, ptr, i) ==
    LET b == ByteAt(ReadCell(m, ptr + (i \div 8)), i % 8)
    IN IF b = 0 THEN <<>> ELSE <<b>> \o CStrBytes(m, ptr, i + 1)

read_string(m, ptr) == CStrBytes(m, ptr, 0)

\* str::parse::<usize>: one optional '+', then one or more decimal digits
Digits(s) == IF s # <<>> /\ s[1] = CharPlus THEN Tail(s) ELSE s

ParsesAsUsize(s) ==
    Digits(s) # <<>> /\ \A i \in 1..Len(Digits(s)) : Digits(s)[i] >= Char0 /\ Digits(s)[i] <= Char9

RECURSIVE DecimalValue(_)
DecimalValue(s) ==
    IF s = <<>> THEN 0 ELSE 10 * DecimalValue(SubSeq(s, 1, Len(s) - 1)) + (s[Len(s)] - Char0)

ParseUsize(s) == DecimalValue(Digits(s))

----------------------------------------------------------------------------
(* The bump arena.                                                         *)

InSeq(s, x) == \E i \in 1..Len(s) : s[i] = x

\* Bump::try_alloc_layout(Layout::array::<u64>(count)) on an arena with
\* `top` cells in use: the allocation limit refuses what does not fit
Fits(top, count) == top + count <= ArenaCells

\* the region a collection starts to-space from: a new Bump takes its chunk
\* from the system allocator, which hands out zero pages or the chunk a
\* previous arena gave back, with the bytes that arena left in it
ToSpace(m, a, fresh) == IF fresh THEN [x \in DOMAIN m |-> IF x \in ArenaAddrs(a) THEN 0 ELSE m[x]] ELSE m

----------------------------------------------------------------------------
(* Allocator::gc.  A collection works on a record g:                       *)
(*   mem, stack  the memory it reads and writes                            *)
(*   top, objs   the bump pointer and the regions of scratch (to-space)    *)
(*   allocs      the new live-object list                                  *)
(*   forwarded   the forwarding table, old -> new                          *)
(*   children    value of a 'p' field -> the to-space cells that hold it   *)
(*   panic       "" or the panic that ended the collection                 *)

NoPanic == ""

UnwrapPanic == "called Option::unwrap() on a None value"

AllocError == "runtime: alloc: failed to allocate memory"

\* scratch.alloc_layout(Layout::array::<u64>(count)): panics when the arena
\* refuses the request
ScratchAlloc(g, count) ==
    IF Fits(g.top, count)
    THEN [g EXCEPT !.top = @ + count,
                   !.objs = Append(@, <<ArenaBase(1 - current) + g.top, count>>)]
    ELSE [g EXCEPT !.panic = "out of memory"]

RECURSIVE CopyCells(_, _, _, _, _)
CopyCells(m, src, dst, i, n) ==
    IF i >= n THEN m
    ELSE CopyCells(WriteCell(m, dst + i, ReadCell(m, src + i)), src, dst, i + 1, n)

\* copy_array without its push onto the new live-object list
copy_array_unlisted(g, ptr, current_value_ptr) ==
    LET len == read_string(g.mem, ptr)
    IN IF ~ParsesAsUsize(len) THEN g
       ELSE LET n  == ParseUsize(len)
                new_arr == ArenaBase(1 - current) + g.top
                g1 == ScratchAlloc(g, n + ARRAY_METADATA_FIELDS)
            IN IF g1.panic # NoPanic THEN g1
               ELSE [g1 EXCEPT
                       !.mem = WriteCell(CopyCells(g.mem, ptr, new_arr, 0, n + 1),
                                         current_value_ptr, new_arr)]

copy_array(g, ptr, current_value_ptr) ==
    LET len == read_string(g.mem, ptr)
    IN IF ~ParsesAsUsize(len) THEN g
       ELSE LET n  == ParseUsize(len)
                new_arr == ArenaBase(1 - current) + g.top
                g1 == ScratchAlloc(g, n + ARRAY_METADATA_FIELDS)
            IN IF g1.panic # NoPanic THEN g1
               ELSE [g1 EXCEPT
                       !.mem = WriteCell(CopyCells(g.mem, ptr, new_arr, 0, n + 1),
                                         current_value_ptr, new_arr),
                       !.allocs = Append(@, new_arr)]

PushChild(children, value, cell) ==
    IF value \in DOMAIN children
    THEN [children EXCEPT ![value] = Append(@, cell)]
    ELSE (value :> <<cell>>) @@ children

\* the loop of copy_fields from cell n on
RECURSIVE copy_fields(_, _, _, _, _, _)
copy_fields(g, descriptor, count, class, new_region, n) ==
    IF n >= count \/ g.panic # NoPanic THEN g
    ELSE LET current_value_ptr == class + n
             found == InSeq(allocations, ReadCell(g.mem, current_value_ptr))
             g1 == IF found
                   THEN copy_array(g, ReadCell(g.mem, current_value_ptr), current_value_ptr)
                   ELSE g
         IN IF g1.panic # NoPanic THEN g1
            ELSE LET current_value == ReadCell(g1.mem, current_value_ptr)
                     new_value_ptr == new_region + n
                     pointer == n > 1 /\ descriptor[n - CLASS_METADATA_FIELDS + 1] = CharP
                     g2 == [g1 EXCEPT
                              !.mem = WriteCell(@, new_value_ptr, current_value),
                              !.children = IF pointer
                                           THEN PushChild(@, current_value, new_value_ptr)
                                           ELSE @]
                 IN copy_fields(g2, descriptor, count, class, new_region, n + 1)

\* Allocator::reachable: the slots fp + 8, fp + 16, ... up to sp that hold a
\* pointer of the live-object list, each with the pointer it holds
RECURSIVE ScanFrom(_, _, _)
ScanFrom(stk, src, limit) ==
    IF src > limit THEN <<>>
    ELSE LET cls == IF src \in DOMAIN stk THEN stk[src] ELSE 0
         IN (IF InSeq(allocations, cls) THEN << <<src, cls>> >> ELSE <<>>)
            \o ScanFrom(stk, src + 1, limit)

reachable(fp, stackBase) == ScanFrom(stack, fp + 1, stackBase)

\* the loop of gc over the roots without the lookup in the forwarding table
RECURSIVE ForwardRoots_unforwarded(_, _, _)
ForwardRoots_unforwarded(g, roots, k) ==
    IF k > Len(roots) \/ g.panic # NoPanic THEN g
    ELSE LET loc == roots[k][1]
             class == roots[k][2]
             descriptor == read_string(g.mem, class)
         IN IF ParsesAsUsize(descriptor) THEN ForwardRoots_unforwarded(g, roots, k + 1)
            ELSE LET count == Len(descriptor) + CLASS_METADATA_FIELDS
                     new_region == ArenaBase(1 - current) + g.top
                     g1 == ScratchAlloc(g, count)
                     g2 == IF g1.panic # NoPanic THEN g1
                           ELSE copy_fields([g1 EXCEPT !.allocs = Append(@, new_region)],
                                            descriptor, count, class, new_region, 0)
                 IN IF g2.panic # NoPanic THEN g2
                    ELSE ForwardRoots_unforwarded(
                             [g2 EXCEPT !.forwarded = (class :> new_region) @@ @,
                                        !.stack[loc] = new_region],
                             roots, k + 1)

\* the loop of gc over the roots, from root k on
RECURSIVE ForwardRoots(_, _, _)
ForwardRoots(g, roots, k) ==
    IF k > Len(roots) \/ g.panic # NoPanic THEN g
    ELSE LET loc == roots[k][1]
             class == roots[k][2]
             descriptor == read_string(g.mem, class)
         IN IF ParsesAsUsize(descriptor) THEN ForwardRoots(g, roots, k + 1)
            ELSE IF class \in DOMAIN g.forwarded
            THEN ForwardRoots([g EXCEPT !.stack[loc] = g.forwarded[class]], roots, k + 1)
            ELSE LET count == Len(descriptor) + CLASS_METADATA_FIELDS
                     new_region == ArenaBase(1 - current) + g.top
                     g1 == ScratchAlloc(g, count)
                     g2 == IF g1.panic # NoPanic THEN g1
                           ELSE copy_fields([g1 EXCEPT !.allocs = Append(@, new_region)],
                                            descriptor, count, class, new_region, 0)
                 IN IF g2.panic # NoPanic THEN g2
                    ELSE ForwardRoots([g2 EXCEPT !.forwarded = (class :> new_region) @@ @,
                                                 !.stack[loc] = new_region],
                                      roots, k + 1)

RECURSIVE WriteAll(_, _, _, _)
WriteAll(m, cells, v, i) ==
    IF i > Len(cells) THEN m ELSE WriteAll(WriteCell(m, cells[i], v), cells, v, i + 1)

RECURSIVE forward_child_fields(_, _, _)
forward_child_fields(g, roots, k) ==
    IF k > Len(roots) \/ g.panic # NoPanic THEN g
    ELSE LET cls == roots[k][2]
         IN IF cls \notin DOMAIN g.children THEN forward_child_fields(g, roots, k + 1)
            ELSE IF cls \notin DOMAIN g.forwarded THEN [g EXCEPT !.panic = UnwrapPanic]
            ELSE forward_child_fields(
                     [g EXCEPT !.mem = WriteAll(@, g.children[cls], g.forwarded[cls], 1)],
                     roots, k + 1)

\* |frame.size|
Abs(n) == IF n < 0 THEN -n ELSE n

\* the collection up to the swap of the arenas
Collect(frame, fresh) ==
    LET fp == frame.ptr - Abs(frame.size)
        roots == reachable(fp, sp)
        g0 == [mem |-> ToSpace(mem, 1 - current, fresh), stack |-> stack, top |-> 0,
               objs |-> <<>>, allocs |-> <<>>, forwarded |-> <<>>, children |-> <<>>,
               panic |-> NoPanic, roots |-> roots]
    IN forward_child_fields(ForwardRoots(g0, roots, 1), roots, 1)

NoSnap == [valid |-> FALSE]

\* Allocator::gc as a step of the running call: the state the collection
\* leaves, or the panic that ends the process
gc(frame, fresh, next, nextCall) ==
    \E g \in {Collect(frame, fresh)} :
       IF g.panic # NoPanic
       THEN /\ pc' = "aborted"
            /\ call' = [call EXCEPT !.error = g.panic]
            /\ mem' = g.mem
            /\ stack' = g.stack
            /\ snap' = NoSnap
            /\ UNCHANGED <<current, used, allocations, arena>>
       ELSE /\ pc' = next
            /\ mem' = g.mem
            /\ stack' = g.stack
            /\ current' = 1 - current
            /\ used' = g.top
            /\ allocations' = g.allocs
            /\ arena' = g.objs
            /\ snap' = [valid |-> TRUE, mem |-> mem, allocations |-> allocations,
                        roots |-> g.roots, twice |-> snap.valid]
            /\ call' = nextCall

----------------------------------------------------------------------------
(* bytes_to_num, as init_array uses it.                                    *)

\* the fold over the reversed bytes: `place` counts from the last byte
RECURSIVE bytes_to_num_from(_, _)
bytes_to_num_from(bytes, place) ==
    IF place >= Len(bytes) THEN 0
    ELSE LET digit == bytes[Len(bytes) - place] - Char0
         IN (IF place * 10 >= 1 THEN place * 10 ELSE 1) * digit + bytes_to_num_from(bytes, place + 1)

bytes_to_num(bytes) == bytes_to_num_from(bytes, 0)

\* init_array: the cells it asks Allocator::alloc for
init_array_count(descriptor) == bytes_to_num(descriptor) + ARRAY_METADATA_FIELDS

----------------------------------------------------------------------------
(* The entry points and Allocator::alloc.                                  *)

NoCall == [descriptor |-> <<>>, len |-> 0, frame |-> [ptr |-> 0, size |-> 0], count |-> 0,
           tries |-> 0, attempts |-> 0, error |-> NoPanic]

NewCall(descriptor, len, frame, count) ==
    [descriptor |-> descriptor, len |-> len, frame |-> frame, count |-> count,
     tries |-> 0, attempts |-> 0, error |-> NoPanic]

\* extern "C" alloc(descriptor, fp, size)
CallAlloc ==
    /\ pc = "idle"
    /\ ops < MaxOps
    /\ ops' = ops + 1
    /\ \E descriptor \in ClassDescriptors, frame \in Frames :
          LET count == Len(descriptor) + CLASS_METADATA_FIELDS
          IN call' = NewCall(descriptor, count - CLASS_METADATA_FIELDS, frame, count)
    /\ pc' = "enter"
    /\ snap' = NoSnap
    /\ UNCHANGED <<mem, stack, sp, current, used, allocations, arena, gcAlways, numVars, raVars, restVars>>

\* extern "C" init_array(descriptor, fp, size)
CallInitArray ==
    /\ pc = "idle"
    /\ ops < MaxOps
    /\ ops' = ops + 1
    /\ \E descriptor \in ArrayDescriptors, frame \in Frames :
          LET count == init_array_count(descriptor)
          IN call' = NewCall(descriptor, Len(descriptor), frame, count)
    /\ pc' = "enter"
    /\ snap' = NoSnap
    /\ UNCHANGED <<mem, stack, sp, current, used, allocations, arena, gcAlways, numVars, raVars, restVars>>

\* the head of Allocator::alloc: the collection KYANITE_GC_ALWAYS forces
AllocEnter ==
    /\ pc = "enter"
    /\ \/ /\ gcAlways
          /\ \E fresh \in BOOLEAN : gc(call.frame, fresh, "try", call)
       \/ /\ ~gcAlways
          /\ pc' = "try"
          /\ snap' = NoSnap
          /\ UNCHANGED <<mem, stack, current, used, allocations, arena, call>>
    /\ UNCHANGED <<sp, gcAlways, ops, numVars, raVars, restVars>>

\* one attempt of Allocator::alloc, or the error once tries has reached 2;
\* a successful attempt leaves in snap the pointer it returns and the
\* descriptor it was given
AllocTry ==
    /\ pc = "try"
    /\ \/ /\ call.tries < 2
          /\ Fits(used, call.count)
          /\ LET dst == ArenaBase(current) + used
             IN /\ mem' = CopyBytes(mem, dst, SubSeq(call.descriptor, 1, call.len), 1)
                /\ allocations' = Append(allocations, dst)
                /\ arena' = Append(arena, <<dst, call.count>>)
                /\ snap' = [valid |-> FALSE, returned |-> dst, descriptor |-> call.descriptor]
          /\ used' = used + call.count
          /\ pc' = "idle"
          /\ call' = NoCall
       \/ /\ call.tries < 2
          /\ ~Fits(used, call.count)
          /\ pc' = "collect"
          /\ call' = [call EXCEPT !.attempts = @ + 1]
          /\ snap' = NoSnap
          /\ UNCHANGED <<mem, allocations, arena, used>>
       \/ /\ call.tries >= 2
          /\ pc' = "aborted"
          /\ call' = [call EXCEPT !.error = AllocError]
          /\ snap' = NoSnap
          /\ UNCHANGED <<mem, allocations, arena, used>>
    /\ UNCHANGED <<stack, sp, current, gcAlways, ops, numVars, raVars, restVars>>

\* the failed attempt's collection and the recursive call with tries + 1
AllocCollect ==
    /\ pc = "collect"
    /\ \E fresh \in BOOLEAN :
          gc(call.frame, fresh, "enter", [call EXCEPT !.tries = @ + 1])
    /\ UNCHANGED <<sp, gcAlways, ops, numVars, raVars, restVars>>

\* extern "C" set_stack_base(sp), called once as main starts
SetStackBase ==
    /\ pc = "idle"
    /\ UNCHANGED ops
    /\ sp = 0
    /\ sp' = StackBase
    /\ snap' = NoSnap
    /\ UNCHANGED <<mem, stack, current, used, allocations, arena, gcAlways, pc, call, numVars, raVars, restVars>>

----------------------------------------------------------------------------
(* The compiled program between two calls of the runtime: it stores        *)
(* pointers to listed objects, or null, in stack slots and in the cells    *)
(* after the metadata cells of the objects it holds.                       *)

Range(s) == { s[i] : i \in 1..Len(s) }

Storable == {0} \cup Range(allocations)

MetadataCells(base) ==
    IF ParsesAsUsize(read_string(mem, base)) THEN ARRAY_METADATA_FIELDS ELSE CLASS_METADATA_FIELDS

WriteStack ==
    /\ pc = "idle"
    /\ ops < MaxOps
    /\ ops' = ops + 1
    /\ \E slot \in StackAddrs, v \in Storable :
          /\ stack[slot] # v
          /\ stack' = [stack EXCEPT ![slot] = v]
    /\ snap' = NoSnap
    /\ UNCHANGED <<mem, sp, current, used, allocations, arena, gcAlways, pc, call, numVars, raVars, restVars>>

WriteField ==
    /\ pc = "idle"
    /\ ops < MaxOps
    /\ ops' = ops + 1
    /\ \E i \in 1..Len(arena), v \in Storable :
          \E n \in MetadataCells(arena[i][1]) .. (arena[i][2] - 1) :
             /\ mem[arena[i][1] + n] # v
             /\ mem' = [mem EXCEPT ![arena[i][1] + n] = v]
    /\ snap' = NoSnap
    /\ UNCHANGED <<stack, sp, current, used, allocations, arena, gcAlways, pc, call, numVars, raVars, restVars>>

\* the parts of the state the runtime does not touch
NumOff ==
    /\ numBytes = <<>>
    /\ numCount = 0
    /\ numPc = "off"

GcOff ==
    /\ mem = [a \in HeapAddrs |-> 0]
    /\ stack = [a \in StackAddrs |-> 0]
    /\ sp = 0
    /\ current = 0
    /\ used = 0
    /\ allocations = <<>>
    /\ arena = <<>>
    /\ gcAlways = FALSE
    /\ pc = "off"
    /\ call = NoCall
    /\ snap = NoSnap
    /\ ops = 0

RestOff ==
    /\ tBody = <<>>
    /\ tFid = 0
    /\ tRecord = FALSE
    /\ tEseq = 0
    /\ tTemp = 0
    /\ tLabel = 0
    /\ tFrame = 0
    /\ cIr = <<>>
    /\ cNew = <<>>
    /\ cRepl = <<>>
    /\ cLifted = <<>>
    /\ cOut = <<>>
    /\ cPc = "off"
    /\ idCounter = <<>>
    /\ idThread = <<>>
    /\ idIssued = <<>>
    /\ idReturned = <<>>
    /\ pInput = <<>>
    /\ pPc = "off"
    /\ pRan = <<>>
    /\ pResult = <<>>
    /\ mCall = <<>>
    /\ mOut = <<>>
    /\ parser = <<>>

RaOff ==
    /\ instrs = <<>>
    /\ adj = <<>>
    /\ raPc = "off"
    /\ raErr = NoPanic
    /\ todo = {}
    /\ temp = ""
    /\ sites = <<>>
    /\ live = <<>>
    /\ worklist = <<>>
    /\ ranges = <<>>
    /\ colors = <<>>
    /\ line = 0
    /\ pending = {}

InitGC ==
    /\ NumOff
    /\ RaOff
    /\ RestOff
    /\ mem = [a \in HeapAddrs |-> 0]
    /\ stack = [a \in StackAddrs |-> 0]
    /\ sp = 0
    /\ current = 0
    /\ used = 0
    /\ allocations = <<>>
    /\ arena = <<>>
    /\ gcAlways \in BOOLEAN
    /\ pc = "idle"
    /\ call = NoCall
    /\ snap = NoSnap
    /\ ops = 0

NextGC ==
    \/ CallAlloc
    \/ CallInitArray
    \/ AllocEnter
    \/ AllocTry
    \/ AllocCollect
    \/ SetStackBase
    \/ WriteStack
    \/ WriteField

SpecGC == InitGC /\ [][NextGC]_vars

----------------------------------------------------------------------------
(* Claims about the collector, stated on the state a collection has just   *)
(* returned to: snap holds the memory, the live-object list and the roots  *)
(* (slot, pointer) the collection started from, and whether the step       *)
(* before the collection was a collection too.                             *)

IsClass(m, ptr) == ~ParsesAsUsize(read_string(m, ptr))

ToSpaceAddrs == ArenaAddrs(current)

ClassRoots == { k \in 1..Len(snap.roots) : IsClass(snap.mem, snap.roots[k][2]) }

\* the cell of field j (1 = first character of the descriptor) of an object
FieldCell(base, j) == base + CLASS_METADATA_FIELDS + (j - 1)

\* C1 (as claimed): every scanned slot that pointed to a class object o before
\* the collection points afterwards to a to-space object with o's descriptor
\* and, cell for cell, o's non-pointer fields
C1_GcSoundness ==
    snap.valid =>
        \A k \in ClassRoots :
            LET loc == snap.roots[k][1]
                o == snap.roots[k][2]
                d == read_string(snap.mem, o)
            IN /\ stack[loc] \in ToSpaceAddrs
               /\ read_string(mem, stack[loc]) = d
               /\ \A j \in 1..Len(d) :
                     d[j] # CharP =>
                        ReadCell(mem, FieldCell(stack[loc], j)) = ReadCell(snap.mem, FieldCell(o, j))

\* C2 (as claimed): after a collection every scanned slot that held a pointer
\* of the live-object list, to a class or to an array, holds a to-space address
C2_NoFromSpaceOnStack ==
    snap.valid =>
        \A k \in 1..Len(snap.roots) :
            /\ stack[snap.roots[k][1]] \in ToSpaceAddrs
            /\ stack[snap.roots[k][1]] \notin Range(snap.allocations)

\* C3 (as claimed): after a collection a 'p' field of a copied class object
\* holds the address of a copied object, or the non-pointer value it had; never
\* the address of a from-space object
C3_PointerFieldsForwarded ==
    snap.valid =>
        \A k \in ClassRoots :
            LET o == snap.roots[k][2]
                d == read_string(snap.mem, o)
                new == stack[snap.roots[k][1]]
            IN \A j \in 1..Len(d) :
                  d[j] = CharP =>
                     LET before == ReadCell(snap.mem, FieldCell(o, j))
                         after == ReadCell(mem, FieldCell(new, j))
                     IN \/ after \in Range(allocations)
                        \/ after = before /\ before \notin Range(snap.allocations)

\* C4: whenever the runtime is between two steps of its operations, the
\* live-object list holds the base of every region allocated in the active
\* arena exactly once, and nothing else
C4_ListMatchesArena ==
    pc # "aborted" =>
        /\ \A i \in 1..Len(arena) :
              Cardinality({ j \in 1..Len(allocations) : allocations[j] = arena[i][1] }) = 1
        /\ \A j \in 1..Len(allocations) :
              /\ allocations[j] \in ArenaAddrs(current)
              /\ \E i \in 1..Len(arena) : arena[i][1] = allocations[j]

\* a collection has copied a class and an array, and an allocation followed it
C4_Witness ==
    /\ pc = "idle"
    /\ Len(allocations) >= 3
    /\ current = 1
    /\ \E j \in 1..Len(allocations) : ~IsClass(mem, allocations[j])
    /\ \E j \in 1..Len(allocations) : IsClass(mem, allocations[j])

\* C5 (as claimed): a call whose first attempt failed runs a collection and
\* makes exactly one further attempt; when that fails too the call ends with
\* the allocation error
C5_RetryOnce ==
    /\ call.attempts <= 2
    /\ (pc = "aborted" /\ call.attempts >= 1) =>
          (call.attempts = 2 /\ call.error = AllocError)

----------------------------------------------------------------------------
(* init_array on the decimal text of every length of up to MaxDigits       *)
(* digits: the count it passes to Allocator::alloc.                        *)

\* the decimal texts: digit strings without a leading zero, and "0"
DecimalTexts ==
    UNION { { s \in [1..n -> Char0..Char9] : n > 1 => s[1] # Char0 } : n \in 1..MaxDigits }

\* init_array, up to the call of Allocator::alloc
InitArrayCount ==
    /\ numPc = "start"
    /\ numCount' = init_array_count(numBytes)
    /\ numPc' = "done"
    /\ UNCHANGED <<numBytes, gcVars, raVars, restVars>>

MaxFields == 17

\* the descriptors of classes of 1 to MaxFields fields, all scalars or all
\* pointers
ClassTexts == { [k \in 1..n |-> c] : n \in 1..MaxFields, c \in {CharI, CharP} }

\* extern "C" alloc, up to the call of Allocator::alloc: the cells it asks for
AllocCount ==
    /\ numPc = "class"
    /\ numCount' = Len(numBytes) + CLASS_METADATA_FIELDS
    /\ numPc' = "allocated"
    /\ UNCHANGED <<numBytes, gcVars, raVars, restVars>>

InitNum ==
    /\ GcOff
    /\ RaOff
    /\ RestOff
    /\ \/ numBytes \in DecimalTexts /\ numPc = "start"
       \/ numBytes \in ClassTexts /\ numPc = "class"
    /\ numCount = 0

NextNum ==
    \/ InitArrayCount
    \/ AllocCount

SpecNum == InitNum /\ [][NextNum]_vars

\* C6 (as claimed): for a descriptor that is the decimal text of N, init_array
\* asks for N + 1 cells, that is bytes_to_num yields N
C6_InitArrayCount ==
    numPc = "done" => numCount = DecimalValue(numBytes) + ARRAY_METADATA_FIELDS

\* C16 (as claimed): for a class descriptor of len characters the stored
\* string with its NUL lies in the first K = ceil((len + 1) / 8) cells, and no
\* field cell, field j at cell j + 2 of the len + 2 cells, is among them.
C16_FieldsClearOfDescriptor ==
    numPc = "allocated" =>
        \A j \in 1..Len(numBytes) :
            /\ FieldCell(0, j) < numCount
            /\ FieldCell(0, j) \notin { i \div 8 : i \in 0..Len(numBytes) }

----------------------------------------------------------------------------
(* The register allocator: the A64 instructions with what they define and  *)
(* use (arch/armv8a/isa.rs), the flow graph and the live vectors           *)
(* (alloc/liveness.rs), the colouring (alloc/color.rs).  Positions count   *)
(* from 0 as in the code; instrs is a sequence, so position i is           *)
(* instrs[i + 1], and a Vec<bool> v holds position i at v[i + 1].          *)

\* the variants of enum A64 the instruction lists are drawn from, fields in
\* the order of the enum
Label(name) == [op |-> "Label", a |-> name, b |-> "", c |-> ""]
Add(dst, r1, r2) == [op |-> "Add", a |-> dst, b |-> r1, c |-> r2]
Move(dst, src) == [op |-> "Move", a |-> dst, b |-> src, c |-> ""]
\* rel is "" for None
Branch(name, rel) == [op |-> "Branch", a |-> name, b |-> rel, c |-> ""]
Compare(lhs, rhs) == [op |-> "Compare", a |-> lhs, b |-> rhs, c |-> ""]
Ret == [op |-> "Ret", a |-> "", b |-> "", c |-> ""]

\* FlowGraphMeta for A64
defines(i) ==
    CASE i.op \in {"LoadImmediate", "LoadEffective", "Add", "Sub", "Mul", "Div"} -> {i.a}
      [] i.op = "LoadPair" -> {i.a, i.b}
      [] i.op = "Move" -> {i.a}
      [] OTHER -> {}

uses(i) ==
    CASE i.op = "StoreImmediate" -> IF i.b = "x29" THEN {i.a} ELSE {i.a, i.b}
      [] i.op = "LoadImmediate" -> IF i.b = "x29" THEN {i.a} ELSE {i.a, i.b}
      [] i.op \in {"LoadEffective", "Move"} -> {i.b}
      [] i.op = "StorePair" -> {i.a, i.b}
      [] i.op \in {"Add", "Sub", "Mul", "Div"} -> {i.b, i.c}
      [] i.op = "Compare" -> {i.a, i.b}
      [] OTHER -> {}

jump(i) == i.op \in {"Branch", "BranchLink"}

\* an Option<String> is the empty sequence or a sequence of one name
label(i) == IF i.op = "Label" THEN <<i.a>> ELSE <<>>

to(i) == IF i.op \in {"BranchLink", "Branch"} THEN <<i.a>> ELSE <<>>

\* the names that start with 'T'
TempNames == {"T0", "T1", "T2"}

\* the frame's temporary registers
TemporaryRegisters == SubSeq(<<"x9", "x10", "x11", "x12">>, 1, NumRegisters)

\* the instructions the lists are made of
Alphabet ==
    { Label("L0"), Branch("L0", ""), Branch("L0", "eq"), Ret,
      Move("T0", "#1"), Move("T2", "T0"), Add("T0", "T0", "T1"), Compare("T1", "T2") }

Programs == UNION { [1..n -> Alphabet] : n \in 0..MaxInstrs }

IndexPanic == "index out of bounds"

RegisterPanic == "ran out of registers"

Instr(i) == instrs[i + 1]

Positions == 0 .. (Len(instrs) - 1)

\* Graph::add
add(a, stmt, next) ==
    IF stmt \in DOMAIN a THEN [a EXCEPT ![stmt] = Append(@, next)] ELSE (stmt :> <<next>>) @@ a

\* instrs.iter().position(|x| x.label() == label): the first such position,
\* the empty sequence for None
position(name) ==
    LET found == { i \in Positions : label(Instr(i)) = name }
    IN IF found = {} THEN <<>> ELSE <<CHOOSE i \in found : \A j \in found : i <= j>>

\* the loop over the successors of stmt; w is <<worklist, visited, adj>>
RECURSIVE AddSuccessors(_, _, _, _)
AddSuccessors(w, stmt, successors, k) ==
    IF k > Len(successors) THEN w
    ELSE LET next == successors[k]
             push == next \notin w[2] /\ next < Len(instrs) - 1
         IN AddSuccessors(<<IF push THEN Append(w[1], next) ELSE w[1],
                            IF push THEN w[2] \cup {next} ELSE w[2],
                            add(w[3], stmt, next)>>,
                          stmt, successors, k + 1)

\* the worklist loop of Graph::from
RECURSIVE GraphFrom(_)
GraphFrom(w) ==
    IF w[1] = <<>> THEN [adj |-> w[3], panic |-> NoPanic]
    ELSE LET stmt == Head(w[1])
         IN IF stmt \notin Positions THEN [adj |-> w[3], panic |-> IndexPanic]
            ELSE LET target == to(Instr(stmt))
                 IN IF target # <<>> /\ position(target) = <<>>
                    THEN [adj |-> w[3], panic |-> UnwrapPanic]
                    ELSE LET successors == IF target # <<>>
                                           THEN <<position(target)[1], stmt + 1>>
                                           ELSE <<stmt + 1>>
                         IN GraphFrom(AddSuccessors(<<Tail(w[1]), w[2], w[3]>>,
                                                    stmt, successors, 1))

\* restore: the fall-through edge of every jump is removed, and put back
\* when the next instruction is the label jumped to
restore(a) ==
    IF \E from \in DOMAIN a : jump(Instr(from)) /\ from + 1 \notin Positions
    THEN [adj |-> a, panic |-> IndexPanic]
    ELSE [adj |-> [from \in DOMAIN a |->
                     IF jump(Instr(from))
                     THEN LET kept == SelectSeq(a[from], LAMBDA x : x # from + 1)
                          IN IF label(Instr(from + 1)) # <<>>
                                /\ label(Instr(from + 1)) = to(Instr(from))
                             THEN Append(kept, from + 1)
                             ELSE kept
                     ELSE a[from]],
          panic |-> NoPanic]

\* Graph::temporaries
temporaries ==
    { x \in UNION { uses(Instr(i)) \cup defines(Instr(i)) : i \in Positions } : x \in TempNames }

\* Graph::uses: the positions that use t, ascending
RECURSIVE Ascending(_)
Ascending(S) ==
    IF S = {} THEN <<>>
    ELSE LET m == CHOOSE x \in S : \A y \in S : x <= y
         IN <<m>> \o Ascending(S \ {m})

Graph_uses(t) == Ascending({ i \in Positions : t \in uses(Instr(i)) })

\* Graph::defines answering false for every instruction
Graph_defines_never(cur, t) == FALSE

\* Graph::defines: instrs.get(cur).unwrap() fails beyond the list
Graph_defines(cur, t) == t \in defines(Instr(cur))

\* Graph::predecessors, in any of the orders the map may iterate in
predecessors(cur) == { k \in DOMAIN adj : InSeq(adj[k], cur) }

Orders(S) ==
    { q \in [1..Cardinality(S) -> S] : \A i, j \in 1..Cardinality(S) : i # j => q[i] # q[j] }

\* Graph::from, restore included
BuildGraph ==
    /\ raPc = "start"
    /\ LET g == GraphFrom(<<(<<0>>), {}, <<>>>>)
           r == IF g.panic # NoPanic THEN g ELSE restore(g.adj)
       IN IF r.panic # NoPanic
          THEN /\ raPc' = "panic"
               /\ raErr' = r.panic
               /\ UNCHANGED <<adj, todo>>
          ELSE /\ raPc' = "ranges"
               /\ adj' = r.adj
               /\ todo' = temporaries
               /\ UNCHANGED raErr
    /\ UNCHANGED <<instrs, temp, sites, live, worklist, ranges, colors, line, pending>>
    /\ UNCHANGED <<gcVars, numVars, restVars>>

\* LiveRanges::from takes the next temporary; Graph::liveness starts on it
LiveStart ==
    /\ raPc = "ranges"
    /\ \E t \in todo :
          /\ temp' = t
          /\ sites' = Graph_uses(t)
    /\ live' = [i \in 1..Cardinality(DOMAIN adj) |-> FALSE]
    /\ worklist' = <<>>
    /\ raPc' = "liveness"
    /\ UNCHANGED <<instrs, adj, raErr, todo, ranges, colors, line, pending>>
    /\ UNCHANGED <<gcVars, numVars, restVars>>

\* the head of the loop over the use sites
LiveSite ==
    /\ raPc = "liveness"
    /\ worklist = <<>>
    /\ sites # <<>>
    /\ LET site == Head(sites)
       IN IF site >= Len(live)
          THEN /\ raPc' = "panic"
               /\ raErr' = IndexPanic
               /\ UNCHANGED <<live, worklist, sites>>
          ELSE /\ live' = [live EXCEPT ![site + 1] = TRUE]
               /\ worklist' = <<site>>
               /\ sites' = Tail(sites)
               /\ UNCHANGED <<raPc, raErr>>
    /\ UNCHANGED <<instrs, adj, todo, temp, ranges, colors, line, pending>>
    /\ UNCHANGED <<gcVars, numVars, restVars>>

\* one turn of the worklist loop
LiveStep ==
    /\ raPc = "liveness"
    /\ worklist # <<>>
    /\ LET cur == Head(worklist)
       IN IF Graph_defines(cur, temp)
          THEN /\ worklist' = Tail(worklist)
               /\ UNCHANGED <<live, raPc, raErr>>
          ELSE IF cur >= Len(live)
               THEN /\ raPc' = "panic"
                    /\ raErr' = IndexPanic
                    /\ UNCHANGED <<live, worklist>>
               ELSE /\ Len(worklist) - 1 + Cardinality(predecessors(cur)) <= MaxWork
                    /\ live' = [live EXCEPT ![cur + 1] = TRUE]
                    /\ \E q \in Orders(predecessors(cur)) : worklist' = Tail(worklist) \o q
                    /\ UNCHANGED <<raPc, raErr>>
    /\ UNCHANGED <<instrs, adj, todo, temp, sites, ranges, colors, line, pending>>
    /\ UNCHANGED <<gcVars, numVars, restVars>>

\* Graph::liveness returns the vector; LiveRanges::from stores it
LiveReturn ==
    /\ raPc = "liveness"
    /\ worklist = <<>>
    /\ sites = <<>>
    /\ ranges' = (temp :> live) @@ ranges
    /\ todo' = todo \ {temp}
    /\ raPc' = "ranges"
    /\ UNCHANGED <<instrs, adj, raErr, temp, sites, live, worklist, colors, line, pending>>
    /\ UNCHANGED <<gcVars, numVars, restVars>>

\* LiveRanges::lines
lines(range) == { i \in 0 .. (Len(range) - 1) : range[i + 1] }

\* LiveRanges::interferences without its filter k != temp
interferences_unfiltered ==
    [t \in DOMAIN ranges |->
        { other \in DOMAIN ranges : lines(ranges[t]) \cap lines(ranges[other]) # {} }]

\* LiveRanges::interferences
interferences ==
    [t \in DOMAIN ranges |->
        { other \in DOMAIN ranges \ {t} : lines(ranges[t]) \cap lines(ranges[other]) # {} }]

\* LiveRanges::interference_graphs: the graph of one line, temporary -> the
\* others live with it
LineGraph(ln) ==
    LET together == { t \in DOMAIN ranges : ranges[t][ln + 1] }
    IN [t \in { x \in together : together \ {x} # {} } |-> together \ {t}]

\* Color.live as the driver of the allocation hands it over: one graph for
\* every position that has a successor, interference_graphs(instrs.len())
ColorLines == Len(instrs) - 1

\* graph.get(t).map_or(0, HashSet::len)
Degree(ln, t) == IF t \in DOMAIN LineGraph(ln) THEN Cardinality(LineGraph(ln)[t]) ELSE 0

\* the temporaries of a line that Color::color filters from the ranges
LiveAt(ln) == { t \in DOMAIN ranges : ranges[t][ln + 1] }

\* the neighbours of t left out of account
UsedColors_none(t) == {}

\* the registers of the coloured neighbours of t
UsedColors(t) == { colors[other] : other \in interferences[t] \cap DOMAIN colors }

\* find falling back on the first register when none is free
FirstFree_reuse(taken) ==
    LET free == { k \in 1..Len(TemporaryRegisters) : TemporaryRegisters[k] \notin taken }
    IN IF free = {} THEN 1 ELSE CHOOSE k \in free : \A j \in free : k <= j

\* registers.iter().find(|r| !used.contains(r)): its index, 0 for None
FirstFree(taken) ==
    LET free == { k \in 1..Len(TemporaryRegisters) : TemporaryRegisters[k] \notin taken }
    IN IF free = {} THEN 0 ELSE CHOOSE k \in free : \A j \in free : k <= j

\* Color::color up to the first line
ColorStart ==
    /\ raPc = "ranges"
    /\ todo = {}
    /\ colors' = <<>>
    /\ line' = 0
    /\ IF ColorLines > 0 /\ \E t \in DOMAIN ranges : Len(ranges[t]) = 0
       THEN /\ raPc' = "panic"
            /\ raErr' = IndexPanic
            /\ pending' = {}
       ELSE /\ raPc' = "color"
            /\ pending' = IF ColorLines > 0 THEN LiveAt(0) ELSE {}
            /\ UNCHANGED raErr
    /\ UNCHANGED <<instrs, adj, todo, temp, sites, live, worklist, ranges>>
    /\ UNCHANGED <<gcVars, numVars, restVars>>

\* live.pop(): a temporary of the highest degree of the line
ColorPop ==
    /\ raPc = "color"
    /\ pending # {}
    /\ \E t \in pending :
          /\ \A other \in pending : Degree(line, other) <= Degree(line, t)
          /\ pending' = pending \ {t}
          /\ IF t \in DOMAIN colors
             THEN UNCHANGED <<colors, raPc, raErr>>
             ELSE LET k == FirstFree(UsedColors(t))
                  IN IF k = 0
                     THEN /\ raPc' = "panic"
                          /\ raErr' = RegisterPanic
                          /\ UNCHANGED colors
                     ELSE /\ colors' = (t :> TemporaryRegisters[k]) @@ colors
                          /\ UNCHANGED <<raPc, raErr>>
    /\ UNCHANGED <<instrs, adj, todo, temp, sites, live, worklist, ranges, line>>
    /\ UNCHANGED <<gcVars, numVars, restVars>>

\* the next line of self.live
ColorNextLine ==
    /\ raPc = "color"
    /\ pending = {}
    /\ line + 1 < ColorLines
    /\ line' = line + 1
    /\ IF \E t \in DOMAIN ranges : line + 1 >= Len(ranges[t])
       THEN /\ raPc' = "panic"
            /\ raErr' = IndexPanic
            /\ UNCHANGED pending
       ELSE /\ pending' = LiveAt(line + 1)
            /\ UNCHANGED <<raPc, raErr>>
    /\ UNCHANGED <<instrs, adj, todo, temp, sites, live, worklist, ranges, colors>>
    /\ UNCHANGED <<gcVars, numVars, restVars>>

\* Color::color returns the map
ColorReturn ==
    /\ raPc = "color"
    /\ pending = {}
    /\ line + 1 >= ColorLines
    /\ raPc' = "done"
    /\ UNCHANGED <<instrs, adj, raErr, todo, temp, sites, live, worklist, ranges, colors, line, pending>>
    /\ UNCHANGED <<gcVars, numVars, restVars>>

InitRA ==
    /\ GcOff
    /\ NumOff
    /\ RestOff
    /\ instrs \in Programs
    /\ adj = <<>>
    /\ raPc = "start"
    /\ raErr = NoPanic
    /\ todo = {}
    /\ temp = ""
    /\ sites = <<>>
    /\ live = <<>>
    /\ worklist = <<>>
    /\ ranges = <<>>
    /\ colors = <<>>
    /\ line = 0
    /\ pending = {}

NextRA ==
    \/ BuildGraph
    \/ LiveStart
    \/ LiveSite
    \/ LiveStep
    \/ LiveReturn
    \/ ColorStart
    \/ ColorPop
    \/ ColorNextLine
    \/ ColorReturn

SpecRA == InitRA /\ [][NextRA]_vars

----------------------------------------------------------------------------
(* Claims about the live vectors and the colouring.  The control-flow      *)
(* graph is Graph.adj as Graph::from leaves it.                            *)

\* the positions from which a path of the graph leads to a use of t with no
\* definition of t before that use: the least set that holds the uses of t
\* and every position that does not define t and has a successor in the set
RECURSIVE Backward(_, _)
Backward(t, S) ==
    LET more == S \cup { i \in DOMAIN adj :
                            /\ t \notin defines(Instr(i))
                            /\ \E k \in 1..Len(adj[i]) : adj[i][k] \in S }
    IN IF more = S THEN S ELSE Backward(t, more)

LiveIn(t) == Backward(t, { i \in Positions : t \in uses(Instr(i)) })

VectorPositions(t) == 0 .. (Len(ranges[t]) - 1)

\* C7 (as claimed): a position from which the graph has a path to a use of t
\* with no definition of t before that use is true in the vector of t, also
\* when the using instruction defines t itself
C7_LivenessComplete ==
    \A t \in DOMAIN ranges : \A i \in VectorPositions(t) :
        i \in LiveIn(t) => ranges[t][i + 1]

\* C8: a position that is true in the vector of t uses t or has a path of
\* the graph to a use of t with no definition of t before that use
C8_LivenessSound ==
    \A t \in DOMAIN ranges : \E liveIn \in {LiveIn(t)} :
        \A i \in VectorPositions(t) : ranges[t][i + 1] => i \in liveIn

\* a vector is true at a position that does not use the temporary and false
\* at a position that defines it
C8_Witness ==
    \E t \in DOMAIN ranges : \E i, j \in VectorPositions(t) :
        /\ ranges[t][i + 1]
        /\ t \notin uses(Instr(i))
        /\ ~ranges[t][j + 1]
        /\ t \in defines(Instr(j))

\* C9: in the map Color::color returns, two temporaries that interfere have
\* different registers, and every register is one of the temporary list
C9_ColouringProper ==
    raPc = "done" =>
        /\ \A a \in DOMAIN colors : \A b \in interferences[a] \cap DOMAIN colors :
              colors[a] # colors[b]
        /\ \A t \in DOMAIN colors : colors[t] \in Range(TemporaryRegisters)

\* Color::color has returned a map that holds two temporaries that interfere
C9_Witness ==
    /\ raPc = "done"
    /\ \E a \in DOMAIN colors : interferences[a] \cap DOMAIN colors # {}

\* more temporaries are live at one position than there are registers
Pressure ==
    \E i \in Positions :
        Cardinality({ t \in DOMAIN ranges : i < Len(ranges[t]) /\ ranges[t][i + 1] })
            > Len(TemporaryRegisters)

\* C10: when more temporaries are live at one position than the temporary
\* list has registers, Color::color returns no map: it ends in the panic
\* 'ran out of registers'
C10_RegisterPressure ==
    (todo = {} /\ Pressure) =>
        /\ raPc # "done"
        /\ raPc = "panic" => raErr = RegisterPanic

\* Color::color has ended in the panic under pressure
C10_Witness ==
    /\ Pressure
    /\ raPc = "panic"
    /\ raErr = RegisterPanic

\* C11 (as claimed): the map Color::color returns holds every temporary of
\* the instruction list, also one that is defined and never used
C11_EveryTemporaryColoured ==
    raPc = "done" => \A t \in temporaries : t \in DOMAIN colors

\* the temporaries a and b are true at one position of their vectors
LiveTogether(a, b) ==
    \E i \in VectorPositions(a) \cap VectorPositions(b) : ranges[a][i + 1] /\ ranges[b][i + 1]

\* C12: LiveRanges::interferences is irreflexive and symmetric, and two
\* different temporaries are adjacent in it exactly when both are live at
\* one position
C12_InterferenceRelation ==
    \E graph \in {interferences} :
        /\ DOMAIN graph = DOMAIN ranges
        /\ \A a \in DOMAIN ranges :
              /\ a \notin graph[a]
              /\ graph[a] \subseteq DOMAIN ranges
              /\ \A b \in DOMAIN ranges \ {a} :
                    /\ b \in graph[a] <=> LiveTogether(a, b)
                    /\ b \in graph[a] <=> a \in graph[b]

\* the vectors of three temporaries are known: two pairs overlap, one does not
C12_Witness ==
    /\ raPc = "color"
    /\ \E a, b, c \in DOMAIN ranges :
        /\ b \in interferences[a]
        /\ c \in interferences[b]
        /\ c # a
        /\ c \notin interferences[a]
        /\ lines(ranges[a]) # {}
        /\ lines(ranges[c]) # {}

\* The cell n of the object at p1, before the second collection, holds a
\* reference the collector follows: a listed pointer in a 'p' field, or a
\* listed array in any field of a class.
HoldsReference(d, p1, n) ==
    /\ ~ParsesAsUsize(d)
    /\ InSeq(snap.allocations, ReadCell(snap.mem, p1 + n))
    /\ \/ d[n - CLASS_METADATA_FIELDS + 1] = CharP
       \/ ~IsClass(snap.mem, ReadCell(snap.mem, p1 + n))

\* The object at p1 before the second collection and the object at p2 after
\* it hold the same contents up to renaming of addresses: a cell that held a
\* reference holds one again, to a listed object with the same contents
\* (followed depth references deep), and any other cell holds the same value.
RECURSIVE SameObject(_, _, _)
SameObject(p1, p2, depth) ==
    LET d == read_string(snap.mem, p1)
        cells == IF ParsesAsUsize(d) THEN ParseUsize(d) + ARRAY_METADATA_FIELDS
                 ELSE Len(d) + CLASS_METADATA_FIELDS
    IN /\ read_string(mem, p2) = d
       /\ \A n \in MetadataCells(p2) .. cells - 1 :
             IF HoldsReference(d, p1, n)
             THEN /\ InSeq(allocations, ReadCell(mem, p2 + n))
                  /\ depth > 0 =>
                        SameObject(ReadCell(snap.mem, p1 + n), ReadCell(mem, p2 + n), depth - 1)
             ELSE ReadCell(mem, p2 + n) = ReadCell(snap.mem, p1 + n)

\* The slots of the scanned part of the stack that hold a pointer of the
\* live-object list now.
LiveSlots == { r[1] : r \in Range(reachable(call.frame.ptr - Abs(call.frame.size), sp)) }

\* C14 (as claimed): a collection that directly follows a collection, with
\* the same frame and nothing done in between, leaves the same stack slots
\* holding live pointers, a live-object list of the same length and the same
\* contents of every object reachable from the stack, up to renaming.
C14_GcIdempotent ==
    (snap.valid /\ snap.twice) =>
        /\ LiveSlots = { r[1] : r \in Range(snap.roots) }
        /\ Len(allocations) = Len(snap.allocations)
        /\ \A r \in Range(snap.roots) :
              SameObject(r[2], stack[r[1]], 1)

\* C15 (as claimed): after a successful alloc or init_array the bytes at the
\* returned pointer are the characters of the descriptor followed by NUL,
\* whatever the arena held before, so read_string returns the descriptor.
C15_DescriptorStored ==
    (~snap.valid /\ "returned" \in DOMAIN snap) =>
        read_string(mem, snap.returned) = snap.descriptor

\* C24: a collection treats as a root every slot of the closed range
\* [fp - |frame_size|, stack_base] that holds a pointer of the live-object
\* list, the slot at fp - |frame_size| included: no slot of the range it left
\* aside holds such a pointer.
C24_RootRangeClosed ==
    snap.valid =>
        \A slot \in (call.frame.ptr - Abs(call.frame.size)) .. sp :
            slot \notin { r[1] : r \in Range(snap.roots) } =>
                stack[slot] \notin Range(snap.allocations)

\* C25: a collection copies a class object that several scanned slots refer
\* to once: those slots hold one and the same to-space address afterwards,
\* that address is listed once, and the new live-object list has as many
\* class objects as the roots had.
C25_ClassCopiedOnce ==
    snap.valid =>
        /\ \A k1, k2 \in ClassRoots :
              snap.roots[k1][2] = snap.roots[k2][2] =>
                  /\ stack[snap.roots[k1][1]] = stack[snap.roots[k2][1]]
                  /\ stack[snap.roots[k1][1]] \in ToSpaceAddrs
                  /\ Cardinality({ i \in DOMAIN allocations :
                                      allocations[i] = stack[snap.roots[k1][1]] }) = 1
        /\ Cardinality({ i \in DOMAIN allocations : IsClass(mem, allocations[i]) })
              = Cardinality({ snap.roots[k][2] : k \in ClassRoots })

\* two scanned slots referred to one class object, and a collection ran
C25_Witness ==
    /\ snap.valid
    /\ \E k1, k2 \in ClassRoots :
          /\ k1 # k2
          /\ snap.roots[k1][2] = snap.roots[k2][2]

\* C27: the cells copy_array reads for an array, the offsets 0 ..= len for
\* the number len its descriptor parses to, are the cells init_array asked
\* for when the array was allocated: the copy reads no cell outside the
\* object and the to-space region is as large as the object.
C27_ArrayCopyWithinObject ==
    (numPc = "done" /\ ParsesAsUsize(numBytes)) =>
        0 .. ParseUsize(numBytes) = 0 .. (numCount - 1)

\* The allocator after alloc("pp") and init_array("0") on the empty heap: a
\* class object of two pointer fields and an array of no element.
InitGCShared ==
    /\ NumOff
    /\ RaOff
    /\ RestOff
    /\ mem = CopyBytes(CopyBytes([a \in HeapAddrs |-> 0], ArenaBase(0), <<CharP, CharP>>, 1),
                       ArenaBase(0) + 2 + CLASS_METADATA_FIELDS, <<Char0>>, 1)
    /\ stack = [a \in StackAddrs |-> 0]
    /\ sp = 0
    /\ current = 0
    /\ used = 2 + CLASS_METADATA_FIELDS + init_array_count(<<Char0>>)
    /\ allocations = <<ArenaBase(0), ArenaBase(0) + 2 + CLASS_METADATA_FIELDS>>
    /\ arena = << <<ArenaBase(0), 2 + CLASS_METADATA_FIELDS>>,
                  <<ArenaBase(0) + 2 + CLASS_METADATA_FIELDS, init_array_count(<<Char0>>)>> >>
    /\ gcAlways \in BOOLEAN
    /\ pc = "idle"
    /\ call = NoCall
    /\ snap = [valid |-> FALSE, returned |-> ArenaBase(0) + 2 + CLASS_METADATA_FIELDS,
               descriptor |-> <<Char0>>]
    /\ ops = 2

SpecGCShared == InitGCShared /\ [][NextGC]_vars

\* the fields of the reachable class objects that held the address of a
\* listed array before the collection: (root, field, array)
ArrayFields ==
    { f \in UNION { { <<k, j, ReadCell(snap.mem, FieldCell(snap.roots[k][2], j))>> :
                        j \in 1 .. Len(read_string(snap.mem, snap.roots[k][2])) } :
                    k \in ClassRoots } :
        /\ f[3] \in Range(snap.allocations)
        /\ ~IsClass(snap.mem, f[3]) }

\* C28: fields of reachable class objects that held the address of one
\* array before a collection hold one to-space address after it, and that
\* address is listed once.
C28_ArraySharingPreserved ==
    snap.valid =>
        \A f1, f2 \in ArrayFields :
            f1[3] = f2[3] =>
                \E new1 \in {ReadCell(mem, FieldCell(stack[snap.roots[f1[1]][1]], f1[2]))} :
                    /\ new1 = ReadCell(mem, FieldCell(stack[snap.roots[f2[1]][1]], f2[2]))
                    /\ new1 \in ToSpaceAddrs
                    /\ Cardinality({ i \in DOMAIN allocations : allocations[i] = new1 }) = 1

\* ---------------------------------------------------------------------------
\* The tree IR (kyanite-core backend/kyir/translate.rs) and the canonicaliser
\* (kyac backend/kyir/translate/canon/mod.rs).  A node of Expr or Stmt is a
\* tuple whose first element is the variant's name, followed by the variant's
\* fields in the order of their declaration; an Option is a sequence of at
\* most one element.
\* ---------------------------------------------------------------------------

MaxStmts == 2

MaxFuncId == 1

MaxLiteral == 1

WordSize == 8

\* Temp::new and Label::new format the counter value they fetched.
TempName(n) == "T" \o ToString(n)

LabelName(n) == "L" \o ToString(n)

\* Expr::condition: the relation of a comparison; Equal for a constant.
Expr_condition(e) ==
    CASE e[1] = "Binary" /\ e[2][1] = "Cmp" -> <<e[2][2]>>
      [] e[1] = "ConstInt" -> <<"Equal">>
      [] OTHER -> <<>>

\* fix: move expr into the temporary numbered t and yield it, in the ESeq
\* that Expr::eseq numbers id.
fix(expr, t, id) ==
    <<"ESeq", <<"Move", <<"Temp", TempName(t)>>, expr>>, <<"Temp", TempName(t)>>, id>>

\* Expr::checked_binary; t and id are the counters a call of fix would fetch.
checked_binary(op, left, right, t, id) ==
    IF left[1] = "Mem" /\ right[1] = "Mem"
    THEN <<"Binary", op, left, fix(right[2], t, id)>>
    ELSE IF left[1] = "Mem" /\ right[1] = "ESeq" /\ right[3][1] = "Mem"
    THEN <<"Binary", op, left, fix(right[3], t, id)>>
    ELSE <<"Binary", op, left, right>>

\* Stmt::checked_move
checked_move(target, expr, t, id) ==
    IF target[1] = "Mem" /\ expr[1] = "Mem"
    THEN <<"Move", target, fix(expr[2], t, id)>>
    ELSE IF target[1] = "Mem" /\ expr[1] = "ESeq" /\ expr[3][1] = "Mem"
    THEN <<"Move", target, fix(expr[3], t, id)>>
    ELSE <<"Move", target, expr>>

\* impl From<&[Stmt]> for Stmt: a right-nested Seq.
RECURSIVE Stmt_from(_)
Stmt_from(stmts) ==
    IF Len(stmts) = 0 THEN <<"Noop">>
    ELSE IF Len(stmts) = 1 THEN stmts[1]
    ELSE <<"Seq", stmts[1], <<Stmt_from(Tail(stmts))>>>>

\* Stmt::label
RECURSIVE Stmt_label(_)
Stmt_label(s) ==
    CASE s[1] = "Seq" -> Stmt_label(s[2])
      [] s[1] = "Label" -> s[2]

\* Frame::get of the local that ends cell cells below the frame pointer: a
\* memory operand at its offset.  The variables x and y of the function are
\* the locals 1 and 2.
Frame_get(cell) ==
    <<"Mem", <<"Binary", "Plus", <<"Temp", "fp">>, <<"ConstInt", 0 - WordSize * cell>>>>>>

\* AstExpr::Init: the initializers are moved into the cells of a local that
\* begins at begin, and the ESeq carries the id of the function.
translate_Init(initializers, begin, id) ==
    <<"ESeq",
      Stmt_from([index \in 1 .. Len(initializers) |->
          checked_move(<<"Binary", "Plus", <<"Temp", "fp">>,
                         <<"ConstInt", begin - (Len(initializers) - 1) * WordSize
                                             + (index - 1) * WordSize>>>>,
                       initializers[index], 0, 0)]),
      <<"ConstInt", begin>>,
      id>>

\* AstStmt::If with empty branches.
translate_If(condition, t, f, done) ==
    <<"Seq",
      <<"Seq",
        <<"Seq",
          <<"Seq",
            <<"CJump", <<"Cmp", Expr_condition(condition)[1]>>, condition, t, f>>,
            << <<"Seq", <<"Label", t>>, << Stmt_from(<<>>) >> >> >> >>,
          << <<"Jump", done>> >> >>,
        << <<"Seq", <<"Label", f>>, << Stmt_from(<<>>) >> >> >> >>,
      << <<"Label", done>> >> >>

\* AstStmt::While with an empty body.
translate_While(condition, t, f, test) ==
    <<"Seq",
      <<"Seq",
        <<"Seq",
          <<"Label", test>>,
          << <<"CJump", <<"Cmp", Expr_condition(condition)[1]>>, condition, t, f>> >> >>,
        << <<"Seq", <<"Label", t>>, << Stmt_from(<< <<"Jump", test>> >>) >> >> >> >>,
      << <<"Label", f>> >> >>

\* AstStmt::If and AstStmt::While: the condition built for an integer literal.
IntCondition(i) == <<"Binary", <<"Cmp", "Equal">>, <<"ConstInt", i>>, <<"ConstInt", 0>>>>

\* Translate for AstStmt, by the shape of the statement: the translated
\* statement, and the counters and the cells of the frame after it.
translate(shape) ==
    CASE shape[1] = "VarInt" ->      \* x = 1
            [stmt |-> checked_move(Frame_get(1), <<"ConstInt", 1>>, tTemp, tEseq),
             eseq |-> tEseq, temp |-> tTemp, label |-> tLabel, frame |-> tFrame]
      [] shape[1] = "Assign" ->      \* x = y
            [stmt |-> checked_move(Frame_get(1), Frame_get(2), tTemp, tEseq),
             eseq |-> tEseq + 1, temp |-> tTemp + 1, label |-> tLabel, frame |-> tFrame]
      [] shape[1] = "VarInit1" ->    \* x = S:init(a: 3)
            [stmt |-> checked_move(Frame_get(1),
                          translate_Init(<< <<"ConstInt", 3>> >>,
                                         0 - WordSize * (tFrame + 1), tFid),
                          tTemp + 1, tEseq),
             eseq |-> tEseq, temp |-> tTemp + 1, label |-> tLabel, frame |-> tFrame + 1]
      [] shape[1] = "VarInit2" ->    \* x = R:init(a: 1, b: 2)
            [stmt |-> checked_move(Frame_get(1),
                          translate_Init(<< <<"ConstInt", 1>>, <<"ConstInt", 2>> >>,
                                         0 - WordSize * (tFrame + 2), tFid),
                          tTemp + 1, tEseq),
             eseq |-> tEseq, temp |-> tTemp + 1, label |-> tLabel, frame |-> tFrame + 2]
      [] shape[1] = "CallInit" ->    \* f(S:init(a: 3))
            [stmt |-> <<"Expr", <<"Call", "f",
                          << translate_Init(<< <<"ConstInt", 3>> >>,
                                            0 - WordSize * (tFrame + 1), tFid) >> >> >>,
             eseq |-> tEseq, temp |-> tTemp + 1, label |-> tLabel, frame |-> tFrame + 1]
      [] shape[1] = "InitCall" ->    \* x = R:init(a: f(S:init(a: 3)), b: 2)
            [stmt |-> checked_move(Frame_get(1),
                          translate_Init(
                              << <<"Call", "f",
                                   << translate_Init(<< <<"ConstInt", 3>> >>,
                                                     0 - WordSize * (tFrame + 1), tFid) >> >>,
                                 <<"ConstInt", 2>> >>,
                              0 - WordSize * (tFrame + 3), tFid),
                          tTemp + 2, tEseq),
             eseq |-> tEseq, temp |-> tTemp + 2, label |-> tLabel, frame |-> tFrame + 3]
      [] shape[1] = "CallSum" ->     \* f(x + y)
            [stmt |-> <<"Expr", <<"Call", "f",
                          << checked_binary("Plus", Frame_get(1), Frame_get(2), tTemp, tEseq) >> >> >>,
             eseq |-> tEseq + 1, temp |-> tTemp + 1, label |-> tLabel, frame |-> tFrame]
      [] shape[1] = "If" ->          \* if x == y {}
            [stmt |-> translate_If(
                          checked_binary(<<"Cmp", "Equal">>, Frame_get(1), Frame_get(2), tTemp, tEseq),
                          LabelName(tLabel), LabelName(tLabel + 1), LabelName(tLabel + 2)),
             eseq |-> tEseq + 1, temp |-> tTemp + 1, label |-> tLabel + 3, frame |-> tFrame]
      [] shape[1] = "IfInt" ->       \* if i {}
            [stmt |-> translate_If(IntCondition(shape[2]),
                          LabelName(tLabel), LabelName(tLabel + 1), LabelName(tLabel + 2)),
             eseq |-> tEseq, temp |-> tTemp, label |-> tLabel + 3, frame |-> tFrame]
      [] shape[1] = "WhileInt" ->    \* while i {}
            [stmt |-> translate_While(IntCondition(shape[2]),
                          LabelName(tLabel), LabelName(tLabel + 1), LabelName(tLabel + 2)),
             eseq |-> tEseq, temp |-> tTemp, label |-> tLabel + 3, frame |-> tFrame]

\* The statements of the source language the function body is drawn from.
Shapes ==
    {<<"VarInt">>, <<"Assign">>, <<"VarInit1">>, <<"VarInit2">>, <<"CallInit">>,
     <<"InitCall">>, <<"CallSum">>, <<"If">>}
        \cup {<<kind, i>> : kind \in {"IfInt", "WhileInt"}, i \in 0 .. MaxLiteral}

\* ESeqs::eseqs: the ESeq nodes nested in an expression, outermost first.
RECURSIVE Expr_eseqs(_), Stmt_eseqs(_), Args_eseqs(_)
Expr_eseqs(e) ==
    CASE e[1] = "ESeq" -> <<e>> \o Stmt_eseqs(e[2]) \o Expr_eseqs(e[3])
      [] e[1] = "Binary" -> Expr_eseqs(e[3]) \o Expr_eseqs(e[4])
      [] e[1] = "Mem" -> Expr_eseqs(e[2])
      [] e[1] = "Call" -> Args_eseqs(e[3])
      [] OTHER -> <<>>

Stmt_eseqs(s) ==
    CASE s[1] = "Move" -> Expr_eseqs(s[2]) \o Expr_eseqs(s[3])
      [] s[1] = "Expr" -> Expr_eseqs(s[2])
      [] s[1] = "CJump" -> Expr_eseqs(s[3])
      [] s[1] = "Seq" -> Stmt_eseqs(s[2]) \o (IF s[3] = <<>> THEN <<>> ELSE Stmt_eseqs(s[3][1]))
      [] OTHER -> <<>>

Args_eseqs(args) ==
    IF args = <<>> THEN <<>> ELSE Expr_eseqs(Head(args)) \o Args_eseqs(Tail(args))

\* Replace::replace: every ESeq numbered search becomes temp.
RECURSIVE Expr_replace(_, _, _), Stmt_replace(_, _, _)
Expr_replace(e, search, with) ==
    CASE e[1] = "ESeq" ->
            IF e[4] = search THEN with
            ELSE <<"ESeq", Stmt_replace(e[2], search, with), Expr_replace(e[3], search, with), e[4]>>
      [] e[1] = "Binary" ->
            <<"Binary", e[2], Expr_replace(e[3], search, with), Expr_replace(e[4], search, with)>>
      [] e[1] = "Mem" -> <<"Mem", Expr_replace(e[2], search, with)>>
      [] e[1] = "Call" ->
            <<"Call", e[2], [i \in 1 .. Len(e[3]) |-> Expr_replace(e[3][i], search, with)]>>
      [] OTHER -> e

Stmt_replace(s, search, with) ==
    CASE s[1] = "Move" ->
            <<"Move", Expr_replace(s[2], search, with), Expr_replace(s[3], search, with)>>
      [] s[1] = "Expr" -> <<"Expr", Expr_replace(s[2], search, with)>>
      [] s[1] = "CJump" -> <<"CJump", s[2], Expr_replace(s[3], search, with), s[4], s[5]>>
      [] s[1] = "Seq" ->
            <<"Seq", Stmt_replace(s[2], search, with),
                     IF s[3] = <<>> THEN <<>> ELSE <<Stmt_replace(s[3][1], search, with)>>>>
      [] OTHER -> s

\* What update pushes for one lifted ESeq: the two halves of a Seq, or the
\* statement itself.
Lifted(eseq) ==
    IF eseq[2][1] = "Seq" THEN <<eseq[2][2]>> \o eseq[2][3] ELSE <<eseq[2]>>

RECURSIVE UpdateRev(_, _, _)
UpdateRev(nested, i, acc) ==
    IF i = 0 THEN acc
    ELSE UpdateRev(nested, i - 1,
                   [ir |-> acc.ir \o Lifted(nested[i]),
                    replacements |-> Append(acc.replacements, <<nested[i][4], nested[i][3]>>)])

\* update without the recording of the replacements.
update_unrecorded(expr, acc) ==
    [ir |-> UpdateRev(Expr_eseqs(expr), Len(Expr_eseqs(expr)), acc).ir,
     replacements |-> acc.replacements]

\* update: the nested ESeqs innermost first; acc holds ir and replacements.
update(expr, acc) ==
    UpdateRev(Expr_eseqs(expr), Len(Expr_eseqs(expr)), acc)

\* Extract for Stmt
RECURSIVE extract(_, _)
extract(s, acc) ==
    CASE s[1] = "Seq" ->
            IF s[3] = <<>> THEN extract(s[2], acc)
            ELSE extract(s[3][1], extract(s[2], acc))
      [] s[1] = "Move" ->
            [update(s[3], acc) EXCEPT !.ir = Append(@, <<"Move", s[2], s[3]>>)]
      [] s[1] = "Expr" -> [update(s[2], acc) EXCEPT !.ir = Append(@, s)]
      [] s[1] = "CJump" -> [update(s[3], acc) EXCEPT !.ir = Append(@, s)]
      [] OTHER -> [acc EXCEPT !.ir = Append(@, s)]

\* BasicBlocks::new and trace::new arrange whole blocks of the bodies and add
\* only jumps and labels; the statements are those of the bodies, in order.
RECURSIVE trace_new(_)
trace_new(new) ==
    IF new = <<>> THEN <<>> ELSE Head(new)[2] \o trace_new(Tail(new))

\* Translate for AstStmt: one more statement of the function body.
TranslateStmt ==
    /\ cPc = "translate"
    /\ Len(tBody) < MaxStmts
    /\ \E shape \in Shapes :
          \E r \in {translate(shape)} :
             /\ tBody' = Append(tBody, r.stmt)
             /\ tEseq' = r.eseq
             /\ tTemp' = r.temp
             /\ tLabel' = r.label
             /\ tFrame' = r.frame
    /\ UNCHANGED <<tFid, tRecord, cIr, cNew, cRepl, cLifted, cOut, cPc>>
    /\ UNCHANGED <<gcVars, numVars, raVars, idCounter, idThread, idIssued, idReturned,
                   pInput, pPc, pRan, pResult, mCall, mOut, parser>>

\* Translate for AstDecl and Translator::translate: the record declaration
\* becomes Noop, the function its label followed by its body.
TranslateDecls ==
    /\ cPc = "translate"
    /\ cIr' = (IF tRecord THEN <<<<"Noop">>>> ELSE <<>>)
                 \o <<Stmt_from(<<<<"Label", "main">>>> \o tBody)>>
    /\ cPc' = "start"
    /\ UNCHANGED <<tBody, tFid, tRecord, tEseq, tTemp, tLabel, tFrame, cNew, cRepl, cLifted, cOut>>
    /\ UNCHANGED <<gcVars, numVars, raVars, idCounter, idThread, idIssued, idReturned,
                   pInput, pPc, pRan, pResult, mCall, mOut, parser>>

\* canonicalize, lines 16-20: every item is rewritten, which changes none of
\* the statements translated here, and the Noop items are dropped.
CanonRewrite ==
    /\ cPc = "start"
    /\ cIr' = SelectSeq(cIr, LAMBDA item : item # <<"Noop">>)
    /\ cPc' = "extract"
    /\ UNCHANGED <<tBody, tFid, tRecord, tEseq, tTemp, tLabel, tFrame, cNew, cRepl, cLifted, cOut>>
    /\ UNCHANGED <<gcVars, numVars, raVars, idCounter, idThread, idIssued, idReturned,
                   pInput, pPc, pRan, pResult, mCall, mOut, parser>>

\* canonicalize, lines 23-28: one item of the loop, which ends with the
\* last item.
CanonExtract ==
    /\ cPc = "extract"
    /\ cIr # <<>>
    /\ \E r \in {extract(Head(cIr), [ir |-> <<>>, replacements |-> cRepl])} :
          /\ cNew' = Append(cNew, <<Stmt_label(Head(cIr)), r.ir>>)
          /\ cRepl' = r.replacements
    /\ cLifted' = cNew'
    /\ cIr' = Tail(cIr)
    /\ cPc' = IF Tail(cIr) = <<>> THEN "replace" ELSE "extract"
    /\ UNCHANGED <<tBody, tFid, tRecord, tEseq, tTemp, tLabel, tFrame, cOut>>
    /\ UNCHANGED <<gcVars, numVars, raVars, idCounter, idThread, idIssued, idReturned,
                   pInput, pPc, pRan, pResult, mCall, mOut, parser>>

\* canonicalize, lines 29-35: one replacement applied to every statement.
CanonReplace ==
    /\ cPc = "replace"
    /\ cRepl # <<>>
    /\ cNew' = [n \in 1 .. Len(cNew) |->
                  <<cNew[n][1],
                    [j \in 1 .. Len(cNew[n][2]) |->
                        Stmt_replace(cNew[n][2][j], Head(cRepl)[1], Head(cRepl)[2])]>>]
    /\ cRepl' = Tail(cRepl)
    /\ UNCHANGED <<tBody, tFid, tRecord, tEseq, tTemp, tLabel, tFrame, cIr, cLifted, cOut, cPc>>
    /\ UNCHANGED <<gcVars, numVars, raVars, idCounter, idThread, idIssued, idReturned,
                   pInput, pPc, pRan, pResult, mCall, mOut, parser>>

\* canonicalize, lines 36-37: the blocks and their trace are returned.
CanonBlocks ==
    /\ cPc = "replace"
    /\ cRepl = <<>>
    /\ cOut' = trace_new(cNew)
    /\ cPc' = "done"
    /\ UNCHANGED <<tBody, tFid, tRecord, tEseq, tTemp, tLabel, tFrame, cIr, cNew, cRepl, cLifted>>
    /\ UNCHANGED <<gcVars, numVars, raVars, idCounter, idThread, idIssued, idReturned,
                   pInput, pPc, pRan, pResult, mCall, mOut, parser>>

\* The function is the first or a later declared one; FuncDecl::new numbers
\* them from 0.  The counters of the translator start at 0.
InitCanon ==
    /\ GcOff
    /\ NumOff
    /\ RaOff
    /\ tBody = <<>>
    /\ tFid \in 0 .. MaxFuncId
    /\ tRecord \in BOOLEAN
    /\ tEseq = 0
    /\ tTemp = 0
    /\ tLabel = 0
    /\ tFrame = 2
    /\ cIr = <<>>
    /\ cNew = <<>>
    /\ cRepl = <<>>
    /\ cLifted = <<>>
    /\ cOut = <<>>
    /\ cPc = "translate"
    /\ idCounter = <<>>
    /\ idThread = <<>>
    /\ idIssued = <<>>
    /\ idReturned = <<>>
    /\ pInput = <<>>
    /\ pPc = "off"
    /\ pRan = <<>>
    /\ pResult = <<>>
    /\ mCall = <<>>
    /\ mOut = <<>>
    /\ parser = <<>>

NextCanon ==
    \/ TranslateStmt
    \/ TranslateDecls
    \/ CanonRewrite
    \/ CanonExtract
    \/ CanonReplace
    \/ CanonBlocks

SpecCanon == InitCanon /\ [][NextCanon]_vars

\* The statement update pushes first for a lifted ESeq.
FirstLifted(eseq) == Lifted(eseq)[1]

LiftedBefore(list) ==
    \A j \in 1 .. Len(list) :
        \A n \in 1 .. Len(Stmt_eseqs(list[j])) :
            \E i \in 1 .. j - 1 : list[i] = FirstLifted(Stmt_eseqs(list[j])[n])

BodyEseqs == Stmt_eseqs(Stmt_from(tBody))

\* C17 (as claimed): the ESeq nodes built while translating a program carry
\* pairwise different ids, those built for initializer expressions included.
C17_ESeqIdsDistinct ==
    \A i, j \in 1 .. Len(BodyEseqs) : i # j => BodyEseqs[i][4] # BodyEseqs[j][4]

\* RelOp as the compare and the conditional jump evaluate it.
Holds(rel, left, right) ==
    CASE rel = "Equal" -> left = right
      [] rel = "NotEqual" -> left # right
      [] rel = "Less" -> left < right
      [] rel = "Greater" -> left > right
      [] rel = "LessEqual" -> left <= right
      [] rel = "GreaterEqual" -> left >= right

\* Assembly for CJump, for a condition over constants: the label control is
\* transferred to.  A constant condition is compared with 1; a comparison
\* compares its operands; the jump on the relation op goes to t, and
\* otherwise control falls through to the block of f.
CJump_transfer(s) ==
    IF s[3][1] = "ConstInt"
    THEN IF Holds(s[2][2], s[3][2], 1) THEN s[4] ELSE s[5]
    ELSE IF Holds(s[2][2], s[3][3][2], s[3][4][2]) THEN s[4] ELSE s[5]

\* The conditional jumps of a statement whose condition compares constants.
RECURSIVE ConstCJumps(_)
ConstCJumps(s) ==
    CASE s[1] = "Seq" ->
            ConstCJumps(s[2]) \cup (IF s[3] = <<>> THEN {} ELSE ConstCJumps(s[3][1]))
      [] s[1] = "CJump" ->
            IF s[3][1] = "Binary" /\ s[3][3][1] = "ConstInt" /\ s[3][4][1] = "ConstInt"
            THEN {s} ELSE {}
      [] OTHER -> {}

\* C20 (as claimed): an integer literal i as the condition of an if or a
\* while is false exactly when i = 0: the lowered CJump transfers control to
\* its true label when i # 0 and to its false label when i = 0.
C20_IntConditionFalseIffZero ==
    \A s \in ConstCJumps(Stmt_from(tBody)) :
        CJump_transfer(s) = IF s[3][3][2] # 0 THEN s[4] ELSE s[5]

\* ---------------------------------------------------------------------------
\* The static counters behind Temp::new, Label::new (translate.rs) and
\* AsmInstr::new (kyac kyir/mod.rs), called by concurrent callers.  A call
\* is the atomic fetch_add followed by the building of the name or the
\* instruction from the value fetched.
\* ---------------------------------------------------------------------------

NumCallers == 2

MaxCalls == 4

Counters == {"Temp", "Label", "AsmInstr"}

\* ID.fetch_add(1, Ordering::SeqCst): the value the counter holds after it;
\* the caller receives the value it held before.
fetch_add_lost(value) == value

fetch_add(value) == value + 1

\* What a call returns for the value it fetched.
Issue(counter, value) ==
    CASE counter = "Temp" -> TempName(value)
      [] counter = "Label" -> LabelName(value)
      [] counter = "AsmInstr" -> value

\* A caller enters Temp::new, Label::new or AsmInstr::new.
IdCall(t) ==
    /\ idThread[t].pc = "idle"
    /\ Len(idIssued) + Cardinality({u \in DOMAIN idThread : idThread[u].pc = "fetch"}) < MaxCalls
    /\ \E counter \in Counters :
          idThread' = [idThread EXCEPT ![t] = [pc |-> "fetch", counter |-> counter, value |-> 0]]
    /\ UNCHANGED <<idCounter, idIssued, idReturned>>
    /\ UNCHANGED <<gcVars, numVars, raVars, tBody, tFid, tRecord, tEseq, tTemp, tLabel, tFrame,
                   cIr, cNew, cRepl, cLifted, cOut, cPc, pInput, pPc, pRan, pResult, mCall, mOut, parser>>

\* The fetch_add of the call takes effect.
IdFetchAdd(t) ==
    /\ idThread[t].pc = "fetch"
    /\ idCounter' = [idCounter EXCEPT ![idThread[t].counter] = fetch_add(@)]
    /\ idThread' = [idThread EXCEPT ![t].pc = "build", ![t].value = idCounter[idThread[t].counter]]
    /\ idIssued' = Append(idIssued, <<idThread[t].counter, idCounter[idThread[t].counter]>>)
    /\ UNCHANGED idReturned
    /\ UNCHANGED <<gcVars, numVars, raVars, tBody, tFid, tRecord, tEseq, tTemp, tLabel, tFrame,
                   cIr, cNew, cRepl, cLifted, cOut, cPc, pInput, pPc, pRan, pResult, mCall, mOut, parser>>

\* The call returns the name, or the instruction with its id.
IdReturn(t) ==
    /\ idThread[t].pc = "build"
    /\ idReturned' = Append(idReturned,
                            <<idThread[t].counter, Issue(idThread[t].counter, idThread[t].value)>>)
    /\ idThread' = [idThread EXCEPT ![t].pc = "idle"]
    /\ UNCHANGED <<idCounter, idIssued>>
    /\ UNCHANGED <<gcVars, numVars, raVars, tBody, tFid, tRecord, tEseq, tTemp, tLabel, tFrame,
                   cIr, cNew, cRepl, cLifted, cOut, cPc, pInput, pPc, pRan, pResult, mCall, mOut, parser>>

InitIds ==
    /\ GcOff
    /\ NumOff
    /\ RaOff
    /\ tBody = <<>>
    /\ tFid = 0
    /\ tRecord = FALSE
    /\ tEseq = 0
    /\ tTemp = 0
    /\ tLabel = 0
    /\ tFrame = 0
    /\ cIr = <<>>
    /\ cNew = <<>>
    /\ cRepl = <<>>
    /\ cLifted = <<>>
    /\ cOut = <<>>
    /\ cPc = "off"
    /\ idCounter = [counter \in Counters |-> 0]
    /\ idThread = [t \in 1 .. NumCallers |-> [pc |-> "idle", counter |-> "Temp", value |-> 0]]
    /\ idIssued = <<>>
    /\ idReturned = <<>>
    /\ pInput = <<>>
    /\ pPc = "off"
    /\ pRan = <<>>
    /\ pResult = <<>>
    /\ mCall = <<>>
    /\ mOut = <<>>
    /\ parser = <<>>

NextIds ==
    \E t \in 1 .. NumCallers :
        \/ IdCall(t)
        \/ IdFetchAdd(t)
        \/ IdReturn(t)

SpecIds == InitIds /\ [][NextIds]_vars

\* C18: under every interleaving no two calls of one counter return the same
\* name or id, and the values each counter issues increase strictly in the
\* order the fetch_adds take effect.
C18_IdsUnique ==
    /\ \A i, j \in 1 .. Len(idReturned) : i # j => idReturned[i] # idReturned[j]
    /\ \A i, j \in 1 .. Len(idIssued) :
          (i < j /\ idIssued[i][1] = idIssued[j][1]) => idIssued[i][2] < idIssued[j][2]

\* Two callers were inside Temp::new at once and both have returned, the
\* second to fetch before the first.
C18_Witness ==
    /\ Len(idIssued) >= 2
    /\ idIssued[1] = <<"Temp", 0>>
    /\ idIssued[2] = <<"Temp", 1>>
    /\ Len(idReturned) >= 2
    /\ idReturned[1] = <<"Temp", TempName(1)>>
    /\ idReturned[2] = <<"Temp", TempName(0)>>

\* ---------------------------------------------------------------------------
\* The pipeline of Program::from_file (kyanite-core lib.rs) and
\* Ast::from_source (ast/mod.rs): lexing, parsing, type checking, IR
\* generation.  pInput holds what each stage records on the source it is
\* given: lex, parse and check are counts of errors, ir whether Ir::from_ast
\* fails.
\* ---------------------------------------------------------------------------

MaxErrors == 2

\* The test `errors > 0` after a stage.
Failed_never(errors) == FALSE

Failed(errors) == errors > 0

\* TypeCheckPass::run: Err with the count of the errors it recorded, or Ok.
TypeCheckPass_run(errors) == IF Failed(errors) THEN <<errors>> ELSE <<>>

\* Ast::from_source and the head of Ast::new: the token stream is built,
\* and its errors are counted.
PipeLex ==
    /\ pPc = "lex"
    /\ pRan' = Append(pRan, "lexing")
    /\ IF Failed(pInput.lex)
       THEN pResult' = <<"LexError", pInput.lex>> /\ pPc' = "done"
       ELSE pResult' = pResult /\ pPc' = "parse"
    /\ UNCHANGED pInput
    /\ UNCHANGED <<gcVars, numVars, raVars, tBody, tFid, tRecord, tEseq, tTemp, tLabel, tFrame,
                   cIr, cNew, cRepl, cLifted, cOut, cPc, idCounter, idThread, idIssued, idReturned,
                mCall, mOut, parser>>

\* Ast::new: the parser runs, and its errors are counted.
PipeParse ==
    /\ pPc = "parse"
    /\ pRan' = Append(pRan, "parsing")
    /\ IF Failed(pInput.parse)
       THEN pResult' = <<"ParseError", pInput.parse>> /\ pPc' = "done"
       ELSE pResult' = pResult /\ pPc' = "check"
    /\ UNCHANGED pInput
    /\ UNCHANGED <<gcVars, numVars, raVars, tBody, tFid, tRecord, tEseq, tTemp, tLabel, tFrame,
                   cIr, cNew, cRepl, cLifted, cOut, cPc, idCounter, idThread, idIssued, idReturned,
                mCall, mOut, parser>>

\* Program::new: the type check pass runs.
PipeCheck ==
    /\ pPc = "check"
    /\ pRan' = Append(pRan, "type checking")
    /\ IF TypeCheckPass_run(pInput.check) # <<>>
       THEN pResult' = <<"TypeError", TypeCheckPass_run(pInput.check)[1]>> /\ pPc' = "done"
       ELSE pResult' = pResult /\ pPc' = "ir"
    /\ UNCHANGED pInput
    /\ UNCHANGED <<gcVars, numVars, raVars, tBody, tFid, tRecord, tEseq, tTemp, tLabel, tFrame,
                   cIr, cNew, cRepl, cLifted, cOut, cPc, idCounter, idThread, idIssued, idReturned,
                mCall, mOut, parser>>

\* Program::new: Ir::from_ast builds the IR.
PipeIr ==
    /\ pPc = "ir"
    /\ pRan' = Append(pRan, "IR generation")
    /\ pResult' = IF pInput.ir THEN <<"IrError">> ELSE <<"Ok">>
    /\ pPc' = "done"
    /\ UNCHANGED pInput
    /\ UNCHANGED <<gcVars, numVars, raVars, tBody, tFid, tRecord, tEseq, tTemp, tLabel, tFrame,
                   cIr, cNew, cRepl, cLifted, cOut, cPc, idCounter, idThread, idIssued, idReturned,
                mCall, mOut, parser>>

InitPipe ==
    /\ GcOff
    /\ NumOff
    /\ RaOff
    /\ tBody = <<>>
    /\ tFid = 0
    /\ tRecord = FALSE
    /\ tEseq = 0
    /\ tTemp = 0
    /\ tLabel = 0
    /\ tFrame = 0
    /\ cIr = <<>>
    /\ cNew = <<>>
    /\ cRepl = <<>>
    /\ cLifted = <<>>
    /\ cOut = <<>>
    /\ cPc = "off"
    /\ idCounter = <<>>
    /\ idThread = <<>>
    /\ idIssued = <<>>
    /\ idReturned = <<>>
    /\ pInput \in [lex : 0 .. MaxErrors, parse : 0 .. MaxErrors, check : 0 .. MaxErrors,
                   ir : BOOLEAN]
    /\ pPc = "lex"
    /\ pRan = <<>>
    /\ pResult = <<>>
    /\ mCall = <<>>
    /\ mOut = <<>>
    /\ parser = <<>>

NextPipe ==
    \/ PipeLex
    \/ PipeParse
    \/ PipeCheck
    \/ PipeIr

SpecPipe == InitPipe /\ [][NextPipe]_vars

StageOrder == <<"lexing", "parsing", "type checking", "IR generation">>

\* C19: the stages run in the order lexing, parsing, type checking, IR
\* generation; the first stage that records n >= 1 errors ends the pipeline
\* with its error kind carrying n, and no later stage runs.
C19_StagesInOrderAndStopAtError ==
    /\ Len(pRan) <= Len(StageOrder)
    /\ pRan = SubSeq(StageOrder, 1, Len(pRan))
    /\ pPc = "done" =>
          IF pInput.lex >= 1 THEN pResult = <<"LexError", pInput.lex>> /\ Len(pRan) = 1
          ELSE IF pInput.parse >= 1 THEN pResult = <<"ParseError", pInput.parse>> /\ Len(pRan) = 2
          ELSE IF pInput.check >= 1 THEN pResult = <<"TypeError", pInput.check>> /\ Len(pRan) = 3
          ELSE Len(pRan) = 4

C19_Witness ==
    /\ pPc = "done"
    /\ pInput.ir
    /\ pResult = <<"TypeError", MaxErrors>>
    /\ pRan = <<"lexing", "parsing", "type checking">>

\* C23: in the graph Graph::from returns, a conditional branch at i has the
\* position of its label and i + 1 as successors, an instruction that is no
\* transfer has exactly i + 1, and an unconditional branch has the position
\* of its label, and i + 1 only when instruction i + 1 is that label.
C23_Successors ==
    raPc \in {"ranges", "liveness", "color", "done"} =>
        \A i \in DOMAIN adj :
            \E succ \in {Range(adj[i])} :
                CASE Instr(i).op = "Branch" /\ Instr(i).b # "" ->
                        succ = {position(to(Instr(i)))[1], i + 1}
                  [] Instr(i).op = "Branch" /\ Instr(i).b = "" ->
                        /\ position(to(Instr(i)))[1] \in succ
                        /\ succ \subseteq {position(to(Instr(i)))[1], i + 1}
                        /\ i + 1 \in succ <=> label(Instr(i + 1)) = to(Instr(i))
                  [] OTHER -> succ = {i + 1}

\* C26: the vector Graph::liveness fills, and every vector of LiveRanges,
\* has one entry per instruction, so that no position it marks, the last
\* instruction included, is out of the vector.
C26_VectorPerInstruction ==
    /\ raPc = "liveness" => Len(live) = Len(instrs)
    /\ \A t \in DOMAIN ranges : Len(ranges[t]) = Len(instrs)
    /\ ~(raPc = "panic" /\ temp # "" /\ raErr = IndexPanic)

\* ---------------------------------------------------------------------------
\* Termination of Graph::liveness.  A call runs as one sequential
\* computation: a step of its loops that can be taken is taken.
\* ---------------------------------------------------------------------------

SpecRALive == InitRA /\ [][NextRA]_vars /\ WF_vars(LiveSite \/ LiveStep \/ LiveReturn)

\* The worklist would outgrow the bound the model puts on its length.
WorkOutOfBound ==
    /\ raPc = "liveness"
    /\ worklist # <<>>
    /\ ~Graph_defines(Head(worklist), temp)
    /\ Head(worklist) < Len(live)
    /\ Len(worklist) - 1 + Cardinality(predecessors(Head(worklist))) > MaxWork

\* C22: a call of Graph::liveness returns (or panics): the worklist loop is
\* left, whatever the instruction list and the temporary.
C22_LivenessTerminates ==
    (raPc = "liveness") ~> (raPc # "liveness" \/ WorkOutOfBound)

\* ---------------------------------------------------------------------------
\* Stmt::checked_move and Expr::checked_binary (kyanite-core translate.rs)
\* called on operands of every kind.  mCall holds the function called, its
\* operands and the values the counters of Temp::new and Expr::eseq have at
\* the call.
\* ---------------------------------------------------------------------------

MaxCounter == 2

\* The operands: a constant, temporaries, memory cells, a call, and ESeqs
\* that yield a memory cell, a temporary and a constant.
Operands ==
    {<<"ConstInt", 1>>,
     <<"Temp", "fp">>,
     Frame_get(1),
     <<"Mem", <<"Temp", TempName(0)>>>>,
     <<"Call", "f", <<>>>>,
     <<"ESeq", <<"Move", <<"Temp", TempName(0)>>, Frame_get(2)>>,
               <<"Mem", <<"Binary", "Plus", <<"Temp", TempName(0)>>, <<"ConstInt", WordSize>>>>>>, 0>>,
     <<"ESeq", <<"Expr", <<"Call", "f", <<>>>>>>, <<"Temp", TempName(0)>>, 0>>,
     <<"ESeq", <<"Move", <<"Binary", "Plus", <<"Temp", "fp">>, <<"ConstInt", 0 - WordSize>>>>,
                          <<"ConstInt", 3>>>>,
               <<"ConstInt", 0 - WordSize>>, 0>>}

CheckedMove ==
    /\ mCall.fn = "checked_move"
    /\ mOut = <<>>
    /\ mOut' = <<checked_move(mCall.left, mCall.right, mCall.temp, mCall.eseq)>>
    /\ UNCHANGED <<gcVars, numVars, raVars, tBody, tFid, tRecord, tEseq, tTemp, tLabel, tFrame,
                   cIr, cNew, cRepl, cLifted, cOut, cPc, idCounter, idThread, idIssued, idReturned,
                   pInput, pPc, pRan, pResult, mCall, parser>>

CheckedBinary ==
    /\ mCall.fn = "checked_binary"
    /\ mOut = <<>>
    /\ mOut' = <<checked_binary("Plus", mCall.left, mCall.right, mCall.temp, mCall.eseq)>>
    /\ UNCHANGED <<gcVars, numVars, raVars, tBody, tFid, tRecord, tEseq, tTemp, tLabel, tFrame,
                   cIr, cNew, cRepl, cLifted, cOut, cPc, idCounter, idThread, idIssued, idReturned,
                   pInput, pPc, pRan, pResult, mCall, parser>>

InitMove ==
    /\ GcOff
    /\ NumOff
    /\ RaOff
    /\ tBody = <<>>
    /\ tFid = 0
    /\ tRecord = FALSE
    /\ tEseq = 0
    /\ tTemp = 0
    /\ tLabel = 0
    /\ tFrame = 0
    /\ cIr = <<>>
    /\ cNew = <<>>
    /\ cRepl = <<>>
    /\ cLifted = <<>>
    /\ cOut = <<>>
    /\ cPc = "off"
    /\ idCounter = <<>>
    /\ idThread = <<>>
    /\ idIssued = <<>>
    /\ idReturned = <<>>
    /\ pInput = <<>>
    /\ pPc = "off"
    /\ pRan = <<>>
    /\ pResult = <<>>
    /\ mCall \in [fn : {"checked_move", "checked_binary"}, left : Operands, right : Operands,
                  temp : 1 .. MaxCounter, eseq : 1 .. MaxCounter]
    /\ mOut = <<>>
    /\ parser = <<>>

NextMove ==
    \/ CheckedMove
    \/ CheckedBinary

SpecMove == InitMove /\ [][NextMove]_vars

\* The value a call of fix has to put into its temporary: the memory cell
\* the operand is, or the memory cell the operand, an ESeq, yields.
MemoryValue(expr) == IF expr[1] = "Mem" THEN expr ELSE expr[3]

YieldsMemory(expr) == expr[1] = "Mem" \/ (expr[1] = "ESeq" /\ expr[3][1] = "Mem")

RECURSIVE StmtIn(_, _)
StmtIn(x, s) ==
    \/ s = x
    \/ /\ s[1] = "Seq"
       /\ \/ StmtIn(x, s[2])
          \/ s[3] # <<>> /\ StmtIn(x, s[3][1])

\* C29: when the source given to checked_move, or the right operand given
\* to checked_binary, is an ESeq, the statement of that ESeq is a statement
\* of an ESeq of the result.
C29_ESeqStatementKept ==
    (mOut # <<>> /\ mCall.right[1] = "ESeq") =>
        \E eseqs \in {Stmt_eseqs(<<"Expr", mOut[1][Len(mOut[1])]>>)} :
            \E i \in DOMAIN eseqs : StmtIn(mCall.right[2], eseqs[i][2])


----------------------------------------------------------------------------
(* Parser::parse (kyac parse.rs).  The parser's tokens and its previous    *)
(* token are carried through the calls as one record whose field r says    *)
(* whether the calls so far returned Ok, returned Err or panicked: every   *)
(* operator hands a record that is not Ok back unchanged, which is what    *)
(* the ? after each call does.  The three loops that recover from errors   *)
(* (the top-level loop of parse, the loop of block and the loop of         *)
(* synchronize) take one step per iteration; parser.blocks lists the       *)
(* callers of the block calls that have not returned, outermost first.    *)
(* The tokens are of the kinds Fun, Identifier, LeftParen, RightParen,     *)
(* LeftBrace, RightBrace, Semicolon, If and Eof, so the branches of the    *)
(* code on any other kind are never taken and are left out.                *)

\* the longest run of arbitrary tokens after the chosen opening
MaxBody == 3

\* Parser::advance.  (The set of one element in this and the next two
\* definitions has the argument evaluated once.)
advance(c) ==
    CHOOSE next \in { IF x.tokens = <<>>
                      THEN [x EXCEPT !.previous = <<>>]
                      ELSE [x EXCEPT !.tokens = Tail(x.tokens), !.previous = <<Head(x.tokens)>>]
                      : x \in {c} } : TRUE

\* self.peek()?: Err(UnexpectedEof) when no token is left
peek(c) ==
    CHOOSE next \in { IF x.r = "Ok" /\ x.tokens = <<>> THEN [x EXCEPT !.r = "Err"] ELSE x
                      : x \in {c} } : TRUE

\* self.consume(kind)?: at the end of the tokens the error is built from
\* self.previous.as_ref().unwrap()
consume(c, kind) ==
    CHOOSE next \in { IF x.r # "Ok" THEN x
                      ELSE IF x.tokens = <<>>
                      THEN [x EXCEPT !.r = IF x.previous = <<>> THEN "Panic" ELSE "Err"]
                      ELSE [advance(x) EXCEPT
                                !.r = IF Head(x.tokens).kind = kind THEN "Ok" ELSE "Err"]
                      : x \in {c} } : TRUE

RECURSIVE expression(_)

\* Parser::expression: equality, comparison, term, factor, unary and access
\* each peek for their operators after the operand that call returned
expression(c) ==
    LET primary(q) ==
            IF peek(q).r # "Ok" THEN peek(q)
            ELSE IF Head(q.tokens).kind = "LeftParen"
            THEN consume(expression(consume(q, "LeftParen")), "RightParen")
            ELSE IF Head(q.tokens).kind = "Identifier"
            THEN peek(advance(q))
            ELSE [q EXCEPT !.r = "Err"]
        Parser_call(q) ==
            LET left == peek(primary(q))
            IN IF left.r # "Ok" \/ Head(left.tokens).kind # "LeftParen"
               THEN left
               ELSE LET open == peek(consume(left, "LeftParen"))
                    IN consume(IF open.r = "Ok" /\ Head(open.tokens).kind # "RightParen"
                               THEN peek(expression(open))
                               ELSE open,
                               "RightParen")
    IN peek(Parser_call(c))

\* synchronize that drops no token of its own when stmt is set
synchronize_unadvanced(p, c, stmt) ==
    [p EXCEPT !.tokens = c.tokens, !.previous = c.previous, !.errors = @ + 1,
              !.stmt = stmt, !.pc = "synchronize"]

\* self.error(&e); self.synchronize(stmt): the error is recorded, one token
\* is dropped when stmt is set, and the loop of synchronize starts
synchronize(p, c, stmt) ==
    LET d == IF stmt THEN advance(c) ELSE c
    IN [p EXCEPT !.tokens = d.tokens, !.previous = d.previous, !.errors = @ + 1,
                 !.stmt = stmt, !.pc = "synchronize"]

InitParse ==
    /\ GcOff
    /\ NumOff
    /\ RaOff
    /\ tBody = <<>>
    /\ tFid = 0
    /\ tRecord = FALSE
    /\ tEseq = 0
    /\ tTemp = 0
    /\ tLabel = 0
    /\ tFrame = 0
    /\ cIr = <<>>
    /\ cNew = <<>>
    /\ cRepl = <<>>
    /\ cLifted = <<>>
    /\ cOut = <<>>
    /\ cPc = "off"
    /\ idCounter = <<>>
    /\ idThread = <<>>
    /\ idIssued = <<>>
    /\ idReturned = <<>>
    /\ pInput = <<>>
    /\ pPc = "off"
    /\ pRan = <<>>
    /\ pResult = <<>>
    /\ mCall = <<>>
    /\ mOut = <<>>
    /\ \E opening \in { <<>>,
                        <<"Fun", "Identifier", "LeftParen", "RightParen", "LeftBrace">>,
                        <<"Fun", "Identifier", "LeftParen", "RightParen", "LeftBrace",
                          "If", "Identifier", "LeftBrace">> } :
       \E n \in 0 .. MaxBody :
       \E body \in [1 .. n -> {"Fun", "Identifier", "LeftParen", "RightParen", "LeftBrace",
                               "RightBrace", "Semicolon", "If", "Eof"}] :
       \E newline \in 0 .. n :
           parser = [tokens |-> [i \in 1 .. Len(opening) + n |->
                                    IF i <= Len(opening)
                                    THEN [kind |-> opening[i], line |-> 1]
                                    ELSE [kind |-> body[i - Len(opening)],
                                          line |-> IF i - Len(opening) <= newline THEN 1 ELSE 2]],
                     previous |-> <<>>, errors |-> 0, nodes |-> 0, blocks |-> <<>>,
                     stmt |-> FALSE, pc |-> "parse"]

\* one iteration of the loop of Parser::parse, as far as the first iteration
\* of the loop of block or of synchronize
ParseLoop ==
    /\ parser # <<>>
    /\ parser.pc = "parse"
    /\ LET c == [r |-> "Ok", tokens |-> parser.tokens, previous |-> parser.previous]
           \* Parser::function as far as the consume(Kind::LeftBrace) of block;
           \* a parameter needs a Colon, which is none of the kinds
           function ==
               LET first == peek(consume(peek(consume(consume(c, "Fun"), "Identifier")),
                                         "LeftParen"))
                   params == IF first.r = "Ok" /\ Head(first.tokens).kind # "RightParen"
                             THEN consume(consume(first, "Identifier"), "Colon")
                             ELSE first
               IN consume(peek(consume(params, "RightParen")), "LeftBrace")
       IN parser' =
              IF c.tokens = <<>> \/ Head(c.tokens).kind = "Eof"
              THEN [parser EXCEPT !.pc = "done"]
              ELSE IF Head(c.tokens).kind # "Fun"
              THEN synchronize(parser, advance(c), FALSE)
              ELSE IF function.r = "Panic"
              THEN [parser EXCEPT !.pc = "panic"]
              ELSE IF function.r = "Err"
              THEN synchronize(parser, function, FALSE)
              ELSE [parser EXCEPT !.tokens = function.tokens, !.previous = function.previous,
                                  !.blocks = <<"function">>, !.pc = "block"]
    /\ UNCHANGED <<gcVars, numVars, raVars, tBody, tFid, tRecord, tEseq, tTemp, tLabel, tFrame,
                   cIr, cNew, cRepl, cLifted, cOut, cPc, idCounter, idThread, idIssued, idReturned,
                   pInput, pPc, pRan, pResult, mCall, mOut>>

\* one iteration of the loop of Parser::block; when the block returns, what
\* its caller (Parser::function under parse, or Parser::condition under the
\* loop of the enclosing block) does with the result
BlockLoop ==
    /\ parser # <<>>
    /\ parser.pc = "block"
    /\ LET c == [r |-> "Ok", tokens |-> parser.tokens, previous |-> parser.previous]
           caller == parser.blocks[Len(parser.blocks)]
           returned == [parser EXCEPT !.blocks = SubSeq(@, 1, Len(@) - 1)]
           \* Parser::statement: condition as far as the consume(Kind::LeftBrace)
           \* of its block, or assignment
           statement ==
               IF Head(c.tokens).kind = "If"
               THEN consume(expression(consume(c, "If")), "LeftBrace")
               ELSE consume(peek(expression(c)), "Semicolon")
       IN parser' =
              IF c.tokens = <<>>
              THEN synchronize(returned, c, caller = "condition")
              ELSE IF Head(c.tokens).kind = "RightBrace"
              THEN IF caller = "function"
                   THEN [returned EXCEPT !.tokens = Tail(c.tokens),
                                         !.previous = <<Head(c.tokens)>>,
                                         !.nodes = @ + 1, !.pc = "parse"]
                   ELSE IF peek(advance(c)).r = "Ok"
                   THEN [returned EXCEPT !.tokens = Tail(c.tokens),
                                         !.previous = <<Head(c.tokens)>>]
                   ELSE synchronize(returned, advance(c), TRUE)
              ELSE IF statement.r = "Panic"
              THEN [parser EXCEPT !.pc = "panic"]
              ELSE IF statement.r = "Err"
              THEN synchronize(parser, statement, TRUE)
              ELSE [parser EXCEPT !.tokens = statement.tokens,
                                  !.previous = statement.previous,
                                  !.blocks = IF Head(c.tokens).kind = "If"
                                             THEN Append(@, "condition") ELSE @]
    /\ UNCHANGED <<gcVars, numVars, raVars, tBody, tFid, tRecord, tEseq, tTemp, tLabel, tFrame,
                   cIr, cNew, cRepl, cLifted, cOut, cPc, idCounter, idThread, idIssued, idReturned,
                   pInput, pPc, pRan, pResult, mCall, mOut>>

\* one iteration of the loop of Parser::synchronize; on its return the loop
\* that called it goes on
SynchronizeLoop ==
    /\ parser # <<>>
    /\ parser.pc = "synchronize"
    /\ parser' =
           IF parser.tokens = <<>>
           THEN [parser EXCEPT !.pc = IF parser.stmt THEN "block" ELSE "parse"]
           ELSE IF parser.previous = <<>>
           THEN [parser EXCEPT !.pc = "panic"]
           ELSE IF \/ parser.previous[1].kind = "Semicolon"
                   \/ parser.previous[1].line < Head(parser.tokens).line
                   \/ Head(parser.tokens).kind \in {"Let", "Fun", "Const"}
           THEN [parser EXCEPT !.pc = IF parser.stmt THEN "block" ELSE "parse"]
           ELSE [parser EXCEPT !.tokens = Tail(@), !.previous = <<Head(parser.tokens)>>]
    /\ UNCHANGED <<gcVars, numVars, raVars, tBody, tFid, tRecord, tEseq, tTemp, tLabel, tFrame,
                   cIr, cNew, cRepl, cLifted, cOut, cPc, idCounter, idThread, idIssued, idReturned,
                   pInput, pPc, pRan, pResult, mCall, mOut>>

NextParse ==
    \/ ParseLoop
    \/ BlockLoop
    \/ SynchronizeLoop

\* every iteration is taken: the loops run in one thread that nothing stops
SpecParse == InitParse /\ [][NextParse]_vars /\ WF_vars(NextParse)

\* C30: Parser::parse terminates on every finite token sequence: every
\* iteration of its top-level loop, of the loop of block and of the loop of
\* synchronize consumes at least one token or leaves its loop (parse is done,
\* a block returns to its caller, synchronize returns), and in the end parse
\* has returned.
C30_ParseTerminates ==
    /\ [][\/ Len(parser'.tokens) < Len(parser.tokens)
          \/ parser'.pc = "done"
          \/ Len(parser'.blocks) < Len(parser.blocks)
          \/ parser.pc = "synchronize" /\ parser'.pc # "synchronize"]_vars
    /\ <>(parser.pc = "done")

\* a statement of a function's block failed, synchronize went on to the next
\* line, the block was closed and parse has returned with the error recorded
C30_Witness ==
    /\ parser.pc = "done"
    /\ parser.errors >= 1
    /\ parser.nodes >= 1

====
